---- MODULE Spec2Model ----
(***************************************************************************)
(* A model of p115client.client.P115Client: the cookie jar and its setter, *)
(* the credential file, and the request dispatcher with its                *)
(* re-authentication retry loop (blocking and non-blocking).               *)
(***************************************************************************)
EXTENDS Integers, Sequences, FiniteSets, TLC

VARIABLES
    self,       \* the P115Client instance: its __dict__ (cookies, cookies_path, cookies_mtime, user_id, user_key, check_for_relogin)
    fs,         \* the credential file on disk: [content, mtime]; mtime 0 = no file
    clock,      \* the filesystem clock that stamps each write of the credential file
    lock,       \* self._request_lock and self._request_alock: holder of each, or NoOne
    call,       \* one record per caller of request(): its locals and position
    logins,     \* number of device-bound logins the service has issued (each yields new cookies)
    last,       \* the last cookie assignment made through the property (observer)
    run         \* the login, upload or validation call in progress: its arguments, locals, position and the requests it has issued

vars == <<self, fs, clock, lock, call, logins, last, run>>

----------------------------------------------------------------------------
(* Bounds *)

MaxClock == 4       \* writes of the credential file
MaxLogins == 2      \* logins issued by the service
MaxSends == 2       \* transport calls of one request() call
MaxStrLen == 1      \* entries of an assigned cookie string, mapping or iterable
MaxPolls == 3       \* polls of the scan status in one login_with_qrcode

----------------------------------------------------------------------------
(* Strings and cookie values *)

\* A cookie value is the sequence of its "_"-separated segments; <<>> is "".
\* A cookie string is its sequence of name=value entries plus whether it
\* carries padding (surrounding blanks, a trailing ";"); None is a string
\* record with none set.
Str(pairs, pad) == [none |-> FALSE, pad |-> pad, pairs |-> pairs]
None == [none |-> TRUE, pad |-> FALSE, pairs |-> <<>>]
EmptyStr == Str(<<>>, FALSE)

\* truthiness of a str-or-None
Truthy(s) == ~s.none /\ (s.pairs # <<>> \/ s.pad)

ApexDomain == ".115.com"
ForeignDomain == "x.com"
Domains == {ApexDomain, ForeignDomain}

\* int(s) for the decimal strings that occur as first segment of a UID cookie
UserIds == 0..2
int(s) == CHOOSE n \in UserIds : ToString(n) = s

\* the UID cookie the service issues at its k-th login: "{user_id}_{ssoent}_{k}"
LoginUID(k) == <<"1", "A1", ToString(k)>>

SeqRemoveAt(s, i) == SubSeq(s, 1, i - 1) \o SubSeq(s, i + 1, Len(s))

\* index of the first entry of the sequence of pairs ps with name n, 0 if none
FirstIdx(ps, n) ==
    IF \E i \in 1..Len(ps) : ps[i][1] = n
    THEN CHOOSE i \in 1..Len(ps) : ps[i][1] = n /\ \A j \in 1..(i - 1) : ps[j][1] # n
    ELSE 0

\* d[k] = v on a dict kept as a sequence of <<key, value>> in insertion order
DictSet(d, k, v) ==
    LET i == FirstIdx(d, k)
    IN IF i = 0 THEN Append(d, <<k, v>>) ELSE [d EXCEPT ![i] = <<k, v>>]

\* cookietools.cookies_str_to_dict: the entries of the string as a dict
RECURSIVE cookies_str_to_dict(_)
cookies_str_to_dict(pairs) ==
    IF pairs = <<>> THEN <<>>
    ELSE LET n == Len(pairs)
         IN DictSet(cookies_str_to_dict(SubSeq(pairs, 1, n - 1)), pairs[n][1], pairs[n][2])

----------------------------------------------------------------------------
(* http.cookiejar.CookieJar: domain -> name -> cookie, both in insertion order *)

DomIdx(jar, d) ==
    IF \E i \in 1..Len(jar) : jar[i].domain = d
    THEN CHOOSE i \in 1..Len(jar) : jar[i].domain = d
    ELSE 0

set_cookie(jar, d, n, v) ==
    LET i == DomIdx(jar, d)
    IN IF i = 0 THEN Append(jar, [domain |-> d, cookies |-> <<<<n, v>>>>])
       ELSE [jar EXCEPT ![i].cookies = DictSet(@, n, v)]

\* CookieJar.clear(domain, path, name): the domain's entry stays, possibly empty
clear_cookie(jar, d, n) ==
    LET i == DomIdx(jar, d)
        k == FirstIdx(jar[i].cookies, n)
    IN [jar EXCEPT ![i].cookies = SeqRemoveAt(@, k)]

\* iteration over the jar: the cookies as [domain, name, value], in order
RECURSIVE JarIter(_)
JarIter(jar) ==
    IF jar = <<>> THEN <<>>
    ELSE LET h == Head(jar)
         IN [k \in 1..Len(h.cookies) |->
                [domain |-> h.domain, name |-> h.cookies[k][1], value |-> h.cookies[k][2]]]
            \o JarIter(Tail(jar))

\* P115Cookies.from_cookiejar: "name=value" of the cookies under the apex
\* domain, joined by "; "
RECURSIVE ApexPairs(_)
ApexPairs(cs) ==
    IF cs = <<>> THEN <<>>
    ELSE (IF Head(cs).domain = ApexDomain THEN <<<<Head(cs).name, Head(cs).value>>>> ELSE <<>>)
         \o ApexPairs(Tail(cs))

from_cookiejar(jar) == Str(ApexPairs(JarIter(jar)), FALSE)

\* P115Client.cookies_str
cookies_str(S) == from_cookiejar(S.cookies)

----------------------------------------------------------------------------
(* The client's properties and credential-file methods.  Each operator     *)
(* takes the world W = [self, fs, clock] and returns the world after the   *)
(* call, with raised set when the call ends in an exception and ret        *)
(* holding the returned value.                                             *)

World(S, f, c) == [self |-> S, fs |-> f, clock |-> c, raised |-> FALSE, ret |-> None]

Absent == -1    \* a cached_property that is not in __dict__

\* httpx.Cookies.get("UID"): the value of the one cookie of that name in the
\* jar (any domain); CookieConflict when there are several
UIDCookies(jar) == SelectSeq(JarIter(jar), LAMBDA c : c.name = "UID")
CookieConflict(jar) == Len(UIDCookies(jar)) > 1

\* P115Client.user_id, the body of the cached property
\* int(self.cookies["UID"].split("_")[0]) for the cookies cs named UID, 0 when
\* that fails
user_id_from(cs) ==
    IF cs = <<>> THEN 0
    ELSE IF cs[1].value = <<>> THEN 0
    ELSE int(cs[1].value[1])

user_id_of(jar) == user_id_from(UIDCookies(jar))

\* P115Client._write_cookies
_write_cookies(W, cookies) ==
    IF ~W.self.cookies_path THEN W
    ELSE [W EXCEPT !.fs = [content |-> cookies, mtime |-> W.clock + 1],
                   !.clock = W.clock + 1,
                   !.self.cookies_mtime = W.clock + 1]

\* the mapping branch of the setter: set each truthy value under the apex
\* domain, and for a falsy value clear the first cookie of that name
RECURSIVE SetFromMapping(_, _)
SetFromMapping(jar, m) ==
    IF m = <<>> THEN jar
    ELSE LET key == Head(m)[1]
             val == Head(m)[2]
             it == JarIter(jar)
             k == IF \E i \in 1..Len(it) : it[i].name = key
                  THEN CHOOSE i \in 1..Len(it) :
                        it[i].name = key /\ \A j \in 1..(i - 1) : it[j].name # key
                  ELSE 0
             jar1 == IF val # <<>> THEN set_cookie(jar, ApexDomain, key, val)
                     ELSE IF k = 0 THEN jar
                     ELSE clear_cookie(jar, it[k].domain, key)
         IN SetFromMapping(jar1, Tail(m))

\* the iterable branch of the setter: every element is put in the jar as it is
RECURSIVE SetFromIterable(_, _)
SetFromIterable(jar, cs) ==
    IF cs = <<>> THEN jar
    ELSE SetFromIterable(set_cookie(jar, Head(cs).domain, Head(cs).name, Head(cs).value), Tail(cs))

\* the end of the setter, after the jar was updated to jar1: refresh the
\* cached user_id, drop user_key when the id changed, write the file when
\* the cookie string changed
\* "if cookies_old != cookies_new: self._write_cookies(cookies_new)"
SetterWrite(W2, cookies_old, cookies_new) ==
    IF cookies_old # cookies_new THEN _write_cookies(W2, cookies_new) ELSE W2

\* the refresh of the cached ids: user_id is the id read before the cached
\* value was dropped, user_id_new the one computed after
SetterRefresh(W, S1, cookies_old, user_id, user_id_new) ==
    SetterWrite([W EXCEPT !.self = [S1 EXCEPT !.user_id = user_id_new,
                                              !.user_key = IF user_id_new # user_id
                                                           THEN Absent ELSE @]],
                cookies_old, from_cookiejar(S1.cookies))

SetterTail(W, jar1, cookies_old) ==
    LET S1 == [W.self EXCEPT !.cookies = jar1]
        cached == W.self.user_id # Absent
    IN IF CookieConflict(jar1)
       THEN [W EXCEPT !.self = IF cached THEN [S1 EXCEPT !.user_id = Absent] ELSE S1,
                      !.raised = TRUE]
       ELSE SetterRefresh(W, S1, cookies_old,
                          IF cached THEN W.self.user_id ELSE user_id_of(jar1),
                          user_id_of(jar1))

\* P115Client.cookies (setter).  c is the assigned value:
\* [kind |-> "none"] | [kind |-> "str", s] | [kind |-> "map", m] | [kind |-> "iter", it]
cookies_setter(W, c) ==
    LET cookies_old == cookies_str(W.self)
    IN CASE c.kind = "none" ->
                LET W1 == [W EXCEPT !.self.cookies = <<>>]
                IN IF cookies_old # EmptyStr THEN _write_cookies(W1, EmptyStr) ELSE W1
         [] c.kind = "str" ->
                IF c.s.pairs = <<>> THEN W
                ELSE SetterTail(W, SetFromMapping(W.self.cookies, cookies_str_to_dict(c.s.pairs)),
                                cookies_old)
         [] c.kind = "map" ->
                IF c.m = <<>> THEN W
                ELSE SetterTail(W, SetFromMapping(W.self.cookies, c.m), cookies_old)
         [] c.kind = "iter" ->
                SetterTail(W, SetFromIterable(W.self.cookies, c.it), cookies_old)

\* the end of _read_cookies, W1 being the world after "self.cookies = cookies":
\* "self.cookies_mtime = cookies_mtime; return cookies"
ReadAssigned(W1, cookies, cookies_mtime) ==
    IF W1.raised THEN W1
    ELSE [W1 EXCEPT !.self.cookies_mtime = cookies_mtime, !.ret = cookies]

\* P115Client._read_cookies
_read_cookies(W) ==
    IF ~W.self.cookies_path THEN [W EXCEPT !.ret = None]
    ELSE IF W.self.cookies_mtime >= W.fs.mtime
    THEN [W EXCEPT !.ret = cookies_str(W.self)]
    ELSE ReadAssigned(cookies_setter(W, [kind |-> "str", s |-> W.fs.content]),
                      W.fs.content, W.fs.mtime)

\* reading P115Client.user_id from outside
get_user_id(W) ==
    IF W.self.user_id # Absent THEN [W EXCEPT !.ret = W.self.user_id]
    ELSE IF CookieConflict(W.self.cookies) THEN [W EXCEPT !.raised = TRUE]
    ELSE [W EXCEPT !.self.user_id = user_id_of(W.self.cookies),
                   !.ret = user_id_of(W.self.cookies)]

----------------------------------------------------------------------------
(* Construction *)

\* the __dict__ of a client before __init__ has run
NewClient(path) ==
    [cookies |-> <<>>, cookies_path |-> path, cookies_mtime |-> 0,
     user_id |-> Absent, user_key |-> Absent, check_for_relogin |-> FALSE]

\* P115Client.__init__ with cookies given as a path (the file is read) or as
\* a string (assigned); check_for_relogin is set last
__init__(path, cookies, f, c, check_for_relogin) ==
    [(IF path THEN _read_cookies(World(NewClient(path), f, c))
      ELSE IF Truthy(cookies)
      THEN cookies_setter(World(NewClient(path), f, c), [kind |-> "str", s |-> cookies])
      ELSE World(NewClient(path), f, c))
        EXCEPT !.self.check_for_relogin = check_for_relogin, !.ret = None]

Cur == World(self, fs, clock)
Commit(W) == self' = W.self /\ fs' = W.fs /\ clock' = W.clock

----------------------------------------------------------------------------
(* P115Client.request *)

Callers == {"t1", "t2"}
NoOne == "-"

\* hosts of the request URL, as their labels
Host115 == <<"115", "com">>
HostWebapi == <<"webapi", "115", "com">>
HostForeign == <<"x", "com">>
Hosts == {Host115, HostWebapi, HostForeign}

\* CRE_115_DOMAIN_match(url) is not None: "https?://(?:[^.]+\.)*115.com"
\* matches at the start of the URL
CRE_115_DOMAIN_match(host) ==
    \E k \in 1..(Len(host) - 1) : host[k] = "115" /\ host[k + 1] = "com"

\* need_cookie_header as request() computes it from the URL and the transport
need_cookie_header(host, custom) ==
    IF ~CRE_115_DOMAIN_match(host) THEN TRUE ELSE custom

\* the Cookie header a caller may pass
CallerCookie == Str(<<<<"CID", <<"caller">>>>>>, FALSE)

\* the headers argument: absent, without a cookie key, or with the key
\* spelled "Cookie" or "cookie"
HeaderArgs == {"none", "nocookie", "Cookie", "cookie"}

\* request_kwargs["headers"] after the header set-up: its entries under the
\* keys "Cookie" and "cookie" (None = no such key)
KwHeaders(S, host, custom, hdrs) ==
    LET need == need_cookie_header(host, custom)
        given == [Cookie |-> IF hdrs = "Cookie" THEN CallerCookie ELSE None,
                  cookie |-> IF hdrs = "cookie" THEN CallerCookie ELSE None]
    IN IF hdrs # "none"
       THEN IF need /\ hdrs = "nocookie"
            THEN [given EXCEPT !.Cookie = cookies_str(S)]
            ELSE given
       ELSE IF need THEN [given EXCEPT !.Cookie = cookies_str(S)]
       ELSE given

\* whether the local variable headers is not None after the header set-up
HeadersLocal(host, custom, hdrs) ==
    LET need == need_cookie_header(host, custom)
    IN IF hdrs # "none"
       THEN IF ~need THEN hdrs \in {"Cookie", "cookie"} ELSE TRUE
       ELSE need

\* results a check_for_relogin predicate may return: a bool or a status code
BoolResults == {[isbool |-> TRUE, b |-> TRUE, n |-> 0], [isbool |-> TRUE, b |-> FALSE, n |-> 0]}
Results == {[isbool |-> TRUE, b |-> TRUE, n |-> 0], [isbool |-> TRUE, b |-> FALSE, n |-> 0],
            [isbool |-> FALSE, b |-> FALSE, n |-> 405], [isbool |-> FALSE, b |-> FALSE, n |-> 500]}

NoRes == [isbool |-> FALSE, b |-> FALSE, n |-> 0]

\* mutant: every status code is taken for a relogin condition
NotRelogin_anycode(res) == IF res.isbool THEN ~res.b ELSE FALSE

\* "not res if isinstance(res, bool) else res != 405": the failure is propagated
NotRelogin(res) == IF res.isbool THEN ~res.b ELSE res.n # 405

IdleCall ==
    [pc |-> "idle", async_ |-> FALSE, url |-> Host115, custom |-> FALSE, hdrs |-> "none",
     policy |-> FALSE, headers |-> FALSE, kw |-> [Cookie |-> None, cookie |-> None],
     i |-> 0, sends |-> 0, cookies_old |-> None, cookies |-> None, cookies_mtime |-> 0,
     e |-> "-", res |-> NoRes, nested |-> FALSE,
     snap0 |-> None, e0 |-> "-", relogins |-> 0, failed_login |-> FALSE,
     auth_seen |-> FALSE, foreign |-> FALSE, warns |-> 0]

Mode(p) == IF call[p].async_ THEN "alock" ELSE "lock"

\* observer: the calls in progress during which the cookie string was changed
\* by something else than a re-login of their own (own = the change is the
\* re-login of actor)
Mark(cl, W, actor, own) ==
    [r \in Callers |->
        IF /\ cookies_str(W.self) # cookies_str(self)
           /\ cl[r].pc # "idle"
           /\ (r # actor \/ ~own)
        THEN [cl[r] EXCEPT !.foreign = TRUE]
        ELSE cl[r]]

\* request(url, async_=..., request=..., headers=...): lines up to the loop
Start(p, async_, host, custom, hdrs) ==
    /\ call[p].pc = "idle"
    /\ call' = [call EXCEPT ![p] =
            [IdleCall EXCEPT !.pc = "send", !.async_ = async_, !.url = host,
                             !.custom = custom, !.hdrs = hdrs,
                             !.policy = self.check_for_relogin,
                             !.headers = HeadersLocal(host, custom, hdrs),
                             !.kw = KwHeaders(self, host, custom, hdrs)]]
    /\ UNCHANGED <<self, fs, clock, lock, logins, last, run>>

\* mutant: the snapshot and the Cookie header of the first attempt are kept
\* for the attempts that follow
Send_stale(p) ==
    /\ call[p].pc = "send"
    /\ call[p].i < MaxSends
    /\ LET c == call[p]
           cookies_old == IF c.i = 0 THEN cookies_str(self) ELSE c.snap0
       IN call' = [call EXCEPT ![p] =
            IF c.policy
            THEN [c EXCEPT !.pc = "wait", !.cookies_old = cookies_old,
                           !.kw.Cookie = IF c.headers THEN cookies_old ELSE @,
                           !.snap0 = IF c.i = 0 THEN cookies_old ELSE @,
                           !.sends = @ + 1, !.res = NoRes]
            ELSE [c EXCEPT !.pc = "wait", !.sends = @ + 1]]
    /\ UNCHANGED <<self, fs, clock, lock, logins, last, run>>

\* top of the loop: snapshot the cookies, refresh the Cookie header, call the
\* transport; without a policy the request is sent as set up
Send(p) ==
    /\ call[p].pc = "send"
    /\ call[p].i < MaxSends
    /\ LET c == call[p]
           cookies_old == cookies_str(self)
       IN call' = [call EXCEPT ![p] =
            IF c.policy
            THEN [c EXCEPT !.pc = "wait", !.cookies_old = cookies_old,
                           !.kw.Cookie = IF c.headers THEN cookies_old ELSE @,
                           !.snap0 = IF c.i = 0 THEN cookies_old ELSE @,
                           !.sends = @ + 1, !.res = NoRes]
            ELSE [c EXCEPT !.pc = "wait", !.sends = @ + 1]]
    /\ UNCHANGED <<self, fs, clock, lock, logins, last, run>>

\* the transport returns a response
Return(p) ==
    /\ call[p].pc = "wait"
    /\ call' = [call EXCEPT ![p].pc = "ok"]
    /\ UNCHANGED <<self, fs, clock, lock, logins, last, run>>

\* the next iteration of "for i in count(0)"
Continue(c) == [c EXCEPT !.pc = "send", !.i = @ + 1, !.cookies = None, !.cookies_mtime = 0]

\* "cookies_old != self._read_cookies()", W being the world after the re-read
AuthReread(p, c1, W) ==
    /\ W.clock <= MaxClock
    /\ Commit(W)
    /\ call' = Mark([call EXCEPT ![p] =
            IF W.raised THEN [c1 EXCEPT !.pc = "err", !.e = "setter"]
            ELSE IF c1.cookies_old # W.ret THEN Continue(c1)
            ELSE [c1 EXCEPT !.pc = "err"]], W, p, FALSE)

\* the transport raises AuthenticationError
FailAuth(p) ==
    /\ call[p].pc = "wait"
    /\ LET c == call[p]
           c1 == [c EXCEPT !.e = "auth", !.e0 = IF c.i = 0 THEN "auth" ELSE @,
                           !.res = NoRes, !.auth_seen = TRUE]
       IN IF ~c.policy
          THEN /\ call' = [call EXCEPT ![p] = [c1 EXCEPT !.pc = "err"]]
               /\ UNCHANGED <<self, fs, clock>>
          ELSE IF c.cookies_old # cookies_str(self)
          THEN /\ call' = [call EXCEPT ![p] = Continue(c1)]
               /\ UNCHANGED <<self, fs, clock>>
          ELSE AuthReread(p, c1, _read_cookies(Cur))
    /\ UNCHANGED <<lock, logins, last, run>>

\* the transport raises another exception, for which the predicate returns res
Fail(p, res) ==
    /\ call[p].pc = "wait"
    /\ LET c == call[p]
           relog == c.policy /\ ~NotRelogin(res)
           c1 == [c EXCEPT !.e = IF relog THEN "relogin" ELSE "other", !.res = res,
                           !.e0 = IF c.i = 0 THEN (IF relog THEN "relogin" ELSE "other") ELSE @]
           cookies == cookies_str(self)
       IN call' = [call EXCEPT ![p] =
            IF ~relog THEN [c1 EXCEPT !.pc = "err"]
            ELSE IF cookies # c.cookies_old THEN Continue(c1)
            ELSE [c1 EXCEPT !.pc = "mtime", !.cookies = cookies]]
    /\ UNCHANGED <<self, fs, clock, lock, logins, last, run>>

\* cookies_mtime = getattr(self, "cookies_mtime", 0)
ReadMtime(p) ==
    /\ call[p].pc = "mtime"
    /\ call' = [call EXCEPT ![p].pc = "acquire", ![p].cookies_mtime = self.cookies_mtime,
                            ![p].res = NoRes]
    /\ UNCHANGED <<self, fs, clock, lock, logins, last, run>>

\* mutant: the with block is entered without waiting for the lock
Acquire_nolock(p) ==
    /\ call[p].pc = "acquire"
    /\ ~call[p].nested
    /\ lock' = [lock EXCEPT ![Mode(p)] = p]
    /\ call' = [call EXCEPT ![p].pc = "locked"]
    /\ UNCHANGED <<self, fs, clock, logins, last, run>>

\* "with self._request_lock" / "async with self._request_alock"
Acquire(p) ==
    /\ call[p].pc = "acquire"
    /\ lock[Mode(p)] = NoOne
    /\ lock' = [lock EXCEPT ![Mode(p)] = p]
    /\ call' = [call EXCEPT ![p].pc = "locked"]
    /\ UNCHANGED <<self, fs, clock, logins, last, run>>

\* "if cookies == cookies_new:" and what follows, W being the world after the
\* re-read of the file when need_read_cookies
LockedBranch(c, cookies_new, need_read_cookies, W) ==
    [W |-> W,
     warn |-> c.cookies = cookies_new,
     next |-> IF c.cookies # cookies_new THEN "continue"
              ELSE IF W.raised THEN "setter"
              ELSE IF c.i # 0 /\ c.cookies_old = (IF need_read_cookies THEN W.ret ELSE cookies_new)
              THEN "raise"
              ELSE IF ~(need_read_cookies
                        /\ Truthy(IF need_read_cookies THEN W.ret ELSE cookies_new))
              THEN "login"
              ELSE "continue"]

\* mutant: under the lock the cookies are not compared with those read before it
LockedOutcome_norecheck(c, W0) ==
    LET cookies_new == cookies_str(W0.self)
        cookies_mtime_new == W0.self.cookies_mtime
        need_read_cookies == cookies_mtime_new > c.cookies_mtime
        W == IF TRUE /\ need_read_cookies THEN _read_cookies(W0) ELSE W0
        cookies_new2 == IF need_read_cookies THEN W.ret ELSE cookies_new
    IN [W |-> W,
        warn |-> TRUE,
        next |-> IF FALSE THEN "continue"
                 ELSE IF W.raised THEN "setter"
                 ELSE IF c.i # 0 /\ c.cookies_old = cookies_new2 THEN "raise"
                 ELSE IF ~(need_read_cookies /\ Truthy(cookies_new2)) THEN "login"
                 ELSE "continue"]

\* mutant: a retry that made no progress is not told from the first attempt
LockedOutcome_noprogress(c, W0) ==
    LET cookies_new == cookies_str(W0.self)
        cookies_mtime_new == W0.self.cookies_mtime
        need_read_cookies == cookies_mtime_new > c.cookies_mtime
        W == IF c.cookies = cookies_new /\ need_read_cookies THEN _read_cookies(W0) ELSE W0
        cookies_new2 == IF need_read_cookies THEN W.ret ELSE cookies_new
    IN [W |-> W,
        warn |-> c.cookies = cookies_new,
        next |-> IF c.cookies # cookies_new THEN "continue"
                 ELSE IF W.raised THEN "setter"
                 ELSE IF FALSE THEN "raise"
                 ELSE IF ~(need_read_cookies /\ Truthy(cookies_new2)) THEN "login"
                 ELSE "continue"]

\* the body of the with block up to the call of login_another_app: the world
\* after it and how the block goes on ("continue": leave the block and retry,
\* "raise": re-raise the failure, "login": call login_another_app, "setter":
\* the re-read's cookie assignment raised)
LockedOutcome(c, W0) ==
    LockedBranch(c, cookies_str(W0.self), W0.self.cookies_mtime > c.cookies_mtime,
                 IF c.cookies = cookies_str(W0.self)
                    /\ W0.self.cookies_mtime > c.cookies_mtime
                 THEN _read_cookies(W0) ELSE W0)

\* warn("relogin to refresh cookies", category=P115Warning): the warnings
\* the call has emitted so far
Warned(c, o) == [c EXCEPT !.warns = IF o.warn THEN @ + 1 ELSE @]

\* how the with block goes on after outcome o; the lock is released unless
\* login_another_app is entered
LockedStep(p, c, o) ==
    /\ o.W.clock <= MaxClock
    /\ Commit(o.W)
    /\ call' = Mark([call EXCEPT ![p] =
            CASE o.next = "continue" -> Continue(Warned(c, o))
              [] o.next = "setter" -> [Warned(c, o) EXCEPT !.pc = "err", !.e = "setter"]
              [] o.next = "raise" -> [Warned(c, o) EXCEPT !.pc = "err"]
              [] o.next = "login" -> [Warned(c, o) EXCEPT !.pc = "relogin", !.relogins = @ + 1]],
            o.W, p, FALSE)
    /\ lock' = IF o.next = "login" THEN lock ELSE [lock EXCEPT ![Mode(p)] = NoOne]

\* the with block of the relogin path
Locked(p) ==
    /\ call[p].pc = "locked"
    /\ LockedStep(p, call[p], LockedOutcome(call[p], Cur))
    /\ UNCHANGED <<logins, last, run>>

\* "self.cookies = resp["data"]["cookie"]" of login_another_app, W being the
\* world after the assignment
ReloginAssigned(p, W) ==
    /\ W.clock <= MaxClock
    /\ Commit(W)
    /\ call' = Mark([call EXCEPT ![p] =
            IF W.raised THEN [call[p] EXCEPT !.pc = "err", !.e = "setter"]
            ELSE Continue(call[p])], W, p, TRUE)

\* login_another_app(replace=True) ends: the service has issued new cookies
\* and they are assigned to the client
ReloginDone(p) ==
    /\ call[p].pc = "relogin"
    /\ logins < MaxLogins
    /\ ReloginAssigned(p, cookies_setter(Cur, [kind |-> "map",
                                               m |-> <<<<"UID", LoginUID(logins + 1)>>>>]))
    /\ logins' = logins + 1
    /\ lock' = [lock EXCEPT ![Mode(p)] = NoOne]
    /\ UNCHANGED <<last, run>>

\* login_another_app raises (no app can be determined, the scan is refused,
\* a request of the login fails with an error that is not a relogin condition)
ReloginFail(p) ==
    /\ call[p].pc = "relogin"
    /\ call' = [call EXCEPT ![p].pc = "err", ![p].e = "login", ![p].failed_login = TRUE]
    /\ lock' = [lock EXCEPT ![Mode(p)] = NoOne]
    /\ UNCHANGED <<self, fs, clock, logins, last, run>>

\* a request made by login_another_app fails with a relogin condition under
\* unchanged cookies: the nested request() goes for the lock of its mode
ReloginNested(p) ==
    /\ call[p].pc = "relogin"
    /\ call' = [call EXCEPT ![p].pc = "acquire", ![p].nested = TRUE]
    /\ UNCHANGED <<self, fs, clock, lock, logins, last, run>>

\* the caller takes the result or the exception; it may call again
Finish(p) ==
    /\ call[p].pc \in {"ok", "err"}
    /\ call' = [call EXCEPT ![p] = IdleCall]
    /\ UNCHANGED <<self, fs, clock, lock, logins, last, run>>

\* another process sharing the credential file rewrites it: with the cookies
\* of a login of its own, or with the content it has
ExternalWrite(fresh) ==
    /\ self.cookies_path
    /\ clock < MaxClock
    /\ fresh => logins < MaxLogins
    /\ fs' = [content |-> IF fresh THEN Str(<<<<"UID", LoginUID(logins + 1)>>>>, FALSE)
                          ELSE fs.content,
              mtime |-> clock + 1]
    /\ clock' = clock + 1
    /\ logins' = IF fresh THEN logins + 1 ELSE logins
    /\ UNCHANGED <<self, lock, call, last, run>>

----------------------------------------------------------------------------
(* Specifications *)

\* last: the operation on the cookies that was made last (none yet)
NoAssign == [op |-> "-", kind |-> "-", clear |-> "-", empty |-> FALSE, raised |-> FALSE]

\* the state holds the world W
Constructed(W) == self = W.self /\ fs = W.fs /\ clock = W.clock

\* the client after construction from a cookie string or from a credential
\* file that holds one (possibly padded), with or without a relogin policy
InitClient(paths, pads, policies) ==
    \E path \in paths, pad \in pads, policy \in policies :
        Constructed(__init__(path, Str(<<<<"UID", LoginUID(0)>>>>, pad),
                             IF path THEN [content |-> Str(<<<<"UID", LoginUID(0)>>>>, pad),
                                           mtime |-> 1]
                             ELSE [content |-> EmptyStr, mtime |-> 0],
                             IF path THEN 1 ELSE 0, policy))

\* no login, upload or validation call is in progress
NoRun == [kind |-> "-"]

InitRest ==
    /\ lock = [lock |-> NoOne, alock |-> NoOne]
    /\ call = [p \in Callers |-> IdleCall]
    /\ logins = 0
    /\ last = NoAssign
    /\ run = NoRun

\* concurrent callers of request() on a client with a relogin policy
InitRelogin == InitClient(BOOLEAN, BOOLEAN, {TRUE}) /\ InitRest

NextRelogin ==
    \/ \E p \in Callers, async_ \in BOOLEAN : Start(p, async_, HostWebapi, FALSE, "none")
    \/ \E p \in Callers : Send(p)
    \/ \E p \in Callers : Return(p)
    \/ \E p \in Callers : FailAuth(p)
    \/ \E p \in Callers, res \in BoolResults : Fail(p, res)
    \/ \E p \in Callers : ReadMtime(p)
    \/ \E p \in Callers : Acquire(p)
    \/ \E p \in Callers : Locked(p)
    \/ \E p \in Callers : ReloginDone(p)
    \/ \E p \in Callers : ReloginFail(p)
    \/ \E p \in Callers : ReloginNested(p)
    \/ \E p \in Callers : Finish(p)
    \/ \E fresh \in BOOLEAN : ExternalWrite(fresh)

SpecRelogin == InitRelogin /\ [][NextRelogin]_vars

\* two callers that make one call each, with no other process writing the
\* credential file
NextSingleFlight ==
    \/ \E p \in Callers, async_ \in BOOLEAN : Start(p, async_, HostWebapi, FALSE, "none")
    \/ \E p \in Callers : Send(p)
    \/ \E p \in Callers : Return(p)
    \/ \E p \in Callers : FailAuth(p)
    \/ \E p \in Callers, res \in BoolResults : Fail(p, res)
    \/ \E p \in Callers : ReadMtime(p)
    \/ \E p \in Callers : Acquire(p)
    \/ \E p \in Callers : Locked(p)
    \/ \E p \in Callers : ReloginDone(p)
    \/ \E p \in Callers : ReloginFail(p)
    \/ \E p \in Callers : ReloginNested(p)

SpecSingleFlight == InitRelogin /\ [][NextSingleFlight]_vars

\* one caller of request(), with every kind of URL, transport and headers,
\* on a client with or without a relogin policy
InitDispatch == InitClient(BOOLEAN, BOOLEAN, BOOLEAN) /\ InitRest

Caller1 == "t1"

NextDispatch ==
    \/ \E async_ \in BOOLEAN, host \in Hosts, custom \in BOOLEAN, hdrs \in HeaderArgs :
            Start(Caller1, async_, host, custom, hdrs)
    \/ Send(Caller1)
    \/ Return(Caller1)
    \/ FailAuth(Caller1)
    \/ \E res \in Results : Fail(Caller1, res)
    \/ ReadMtime(Caller1)
    \/ Acquire(Caller1)
    \/ Locked(Caller1)
    \/ ReloginDone(Caller1)
    \/ ReloginFail(Caller1)
    \/ ReloginNested(Caller1)
    \/ Finish(Caller1)
    \/ \E fresh \in BOOLEAN : ExternalWrite(fresh)

SpecDispatch == InitDispatch /\ [][NextDispatch]_vars

----------------------------------------------------------------------------
(* Cookie assignments, logins and re-reads of the credential file on a     *)
(* client that no request is using                                         *)

Names == {"UID", "CID"}

\* values a cookie of that name is given: a UID of another user or a CID, or ""
Values(n) == IF n = "UID" THEN {<<"2", "A1", "0">>, <<>>} ELSE {<<"c">>, <<>>}

Entries == UNION {{<<n, v>> : v \in Values(n)} : n \in Names}

SeqsUpTo(S, k) == UNION {[1..n -> S] : n \in 0..k}

\* cookie strings, with or without padding
StrInputs == {Str(ps, pad) : ps \in SeqsUpTo(Entries, MaxStrLen), pad \in BOOLEAN}

\* mappings name -> value, in the order of their items
MapInputs ==
    {m \in SeqsUpTo(Entries, MaxStrLen) : \A i, j \in 1..Len(m) : m[i][1] = m[j][1] => i = j}

\* cookie objects as responses set them: the service's CID, possibly emptied,
\* and the cookies of another site
CookieObjects ==
    {[domain |-> ApexDomain, name |-> "CID", value |-> v] : v \in Values("CID")}
        \cup {[domain |-> ForeignDomain, name |-> e[1], value |-> e[2]] :
                    e \in {e \in Entries : e[2] # <<>>}}

IterInputs == SeqsUpTo(CookieObjects, MaxStrLen)

\* what may be assigned to P115Client.cookies
AssignInputs ==
    {[kind |-> "none"]}
        \cup {[kind |-> "str", s |-> s] : s \in StrInputs}
        \cup {[kind |-> "map", m |-> m] : m \in MapInputs}
        \cup {[kind |-> "iter", it |-> it] : it \in IterInputs}

\* the id of the account the cookie string logs in: that of the UID cookie of
\* the service's domain
AccountOf(jar) ==
    user_id_from(SelectSeq(JarIter(jar), LAMBDA c : c.name = "UID" /\ c.domain = ApexDomain))

\* reading P115Client.user_key from outside: the key of the account is
\* fetched and cached; the fetch fails when the cookies log in no account
get_user_key(W) ==
    IF W.self.user_key # Absent THEN W
    ELSE IF AccountOf(W.self.cookies) = 0 THEN [W EXCEPT !.raised = TRUE]
    ELSE [W EXCEPT !.self.user_key = AccountOf(W.self.cookies)]

\* the name a mapping of one item with an empty value asks to remove
ClearOf(c) ==
    IF c.kind = "map" THEN (IF Len(c.m) = 1 /\ c.m[1][2] = <<>> THEN c.m[1][1] ELSE "-")
    ELSE "-"

\* the assigned value is None, a string that is empty once stripped, or an
\* empty mapping
IsEmptyArg(c) ==
    IF c.kind = "none" THEN TRUE
    ELSE IF c.kind = "str" THEN c.s.pairs = <<>>
    ELSE IF c.kind = "map" THEN c.m = <<>>
    ELSE FALSE

NoArg == [kind |-> "-"]

\* the state after operation op (with argument c) has led to the world W
Applied(W, op, c) ==
    /\ W.clock <= MaxClock
    /\ Commit(W)
    /\ last' = [op |-> op, kind |-> c.kind, clear |-> ClearOf(c), empty |-> IsEmptyArg(c),
                 raised |-> W.raised]
    /\ UNCHANGED <<lock, call, run>>

\* client.cookies = c
Assign(c) ==
    /\ Applied(cookies_setter(Cur, c), "assign", c)
    /\ UNCHANGED logins

\* client.login...(): the cookies the service issues are assigned
Login ==
    /\ logins < MaxLogins
    /\ Applied(cookies_setter(Cur, [kind |-> "map", m |-> <<<<"UID", LoginUID(logins + 1)>>>>]),
               "login", NoArg)
    /\ logins' = logins + 1

\* client._read_cookies()
ReadCookies ==
    /\ Applied(_read_cookies(Cur), "read", NoArg)
    /\ UNCHANGED logins

\* client.user_id
ReadUserId ==
    /\ Applied(get_user_id(Cur), "user_id", NoArg)
    /\ UNCHANGED logins

\* client.user_key
ReadUserKey ==
    /\ Applied(get_user_key(Cur), "user_key", NoArg)
    /\ UNCHANGED logins

InitJar == InitClient(BOOLEAN, BOOLEAN, {FALSE}) /\ InitRest

NextJar ==
    \/ \E c \in AssignInputs : Assign(c)
    \/ Login
    \/ ReadCookies
    \/ ReadUserId
    \/ ReadUserKey

SpecJar == InitJar /\ [][NextJar]_vars

----------------------------------------------------------------------------
(* P115Client.login_with_qrcode: the QR token, the poll loop, the device   *)
(* exchange                                                                 *)

\* resp["data"].get("status") of a poll; a poll may raise instead
Statuses == -3..3

Polled(st) == [raised |-> FALSE, status |-> st]
PollRaised == [raised |-> TRUE, status |-> 0]

\* the number of requests named r among the requests issued
Issued(log, r) == Cardinality({k \in 1..Len(log) : log[k] = r})

\* mutant: an expired code is polled again
ScanStatus_expired(app, st) ==
    IF st \in {0, 1, -1} THEN [pc |-> "poll", outcome |-> "-"]
    ELSE IF st = 2 THEN (IF app THEN [pc |-> "exchange", outcome |-> "-"]
                         ELSE [pc |-> "done", outcome |-> "token"])
    ELSE [pc |-> "done", outcome |-> "LoginError"]

\* the match statement of the poll loop and what follows the break: where
\* the call goes on after a poll answered st
ScanStatus(app, st) ==
    IF st \in {0, 1} THEN [pc |-> "poll", outcome |-> "-"]
    ELSE IF st = 2 THEN (IF app THEN [pc |-> "exchange", outcome |-> "-"]
                         ELSE [pc |-> "done", outcome |-> "token"])
    ELSE [pc |-> "done", outcome |-> "LoginError"]

\* login_with_qrcode(app): the token is requested and the code shown
QrStart(app) ==
    /\ run = NoRun
    /\ run' = [kind |-> "login_with_qrcode", app |-> app, pc |-> "poll", seen |-> <<>>,
               log |-> <<"token">>, outcome |-> "-"]
    /\ UNCHANGED <<self, fs, clock, lock, call, logins, last>>

\* one poll of login_qrcode_scan_status that answers st
QrPoll(st) ==
    /\ run.kind = "login_with_qrcode" /\ run.pc = "poll"
    /\ Len(run.seen) < MaxPolls
    /\ run' = [run EXCEPT !.seen = Append(@, Polled(st)), !.log = Append(@, "status"),
                          !.pc = ScanStatus(run.app, st).pc,
                          !.outcome = ScanStatus(run.app, st).outcome]
    /\ UNCHANGED <<self, fs, clock, lock, call, logins, last>>

\* one poll that raises an Exception: "continue"
QrPollRaises ==
    /\ run.kind = "login_with_qrcode" /\ run.pc = "poll"
    /\ Len(run.seen) < MaxPolls
    /\ run' = [run EXCEPT !.seen = Append(@, PollRaised), !.log = Append(@, "status")]
    /\ UNCHANGED <<self, fs, clock, lock, call, logins, last>>

\* login_qrcode_scan_result(uid, app): the device exchange
QrExchange ==
    /\ run.kind = "login_with_qrcode" /\ run.pc = "exchange"
    /\ run' = [run EXCEPT !.log = Append(@, "result"), !.pc = "done", !.outcome = "result"]
    /\ UNCHANGED <<self, fs, clock, lock, call, logins, last>>

\* the caller has the result or the exception
RunEnds ==
    /\ run # NoRun /\ run.pc = "done"
    /\ run' = NoRun
    /\ UNCHANGED <<self, fs, clock, lock, call, logins, last>>

InitQrcode == InitClient({FALSE}, {FALSE}, {FALSE}) /\ InitRest

NextQrcode ==
    \/ \E app \in BOOLEAN : QrStart(app)
    \/ \E st \in Statuses : QrPoll(st)
    \/ QrPollRaises
    \/ QrExchange
    \/ RunEnds

SpecQrcode == InitQrcode /\ [][NextQrcode]_vars

----------------------------------------------------------------------------
(* P115Client.login: the status probe, the choice of the app, the QR login *)

\* an app name that is None or empty
NoApp == ""

\* const.SSOENT_TO_APP: the app of an SSO-entity code, for the codes it knows
SSOENT_TO_APP == [code \in {"A1"} |-> "web"]

\* P115Client.login_ssoent: the second segment of the UID cookie, NoApp for None
login_ssoent(jar) ==
    IF UIDCookies(jar) = <<>> THEN NoApp
    ELSE IF UIDCookies(jar)[1].value = <<>> THEN NoApp
    ELSE UIDCookies(jar)[1].value[2]

\* what login_device answers: None, or the current device with its icon
NoDevice == [none |-> TRUE, icon |-> NoApp]
Devices == {NoDevice, [none |-> FALSE, icon |-> "ios"], [none |-> FALSE, icon |-> NoApp]}

\* login_app needs the live device lookup: there is a code and the table
\* does not know it
NeedsLookup(jar) ==
    login_ssoent(jar) # NoApp /\ login_ssoent(jar) \notin DOMAIN SSOENT_TO_APP

\* mutant: the table is not consulted
login_app_notable(jar, device) ==
    IF login_ssoent(jar) = NoApp THEN NoApp
    ELSE IF device.none THEN NoApp
    ELSE device.icon

\* P115Client.login_app, device being the answer of the lookup when one is made
login_app(jar, device) ==
    IF login_ssoent(jar) = NoApp THEN NoApp
    ELSE IF login_ssoent(jar) \in DOMAIN SSOENT_TO_APP THEN SSOENT_TO_APP[login_ssoent(jar)]
    ELSE IF device.none THEN NoApp
    ELSE device.icon

\* "if not app: app = 'qandroid'"
OrDefault(app) == IF app = NoApp THEN "qandroid" ELSE app

\* the apps a caller passes to login(): none, or one
AppArgs == {NoApp, "tv"}

\* login(app): the status probe is issued
LoginStart(app) ==
    /\ run = NoRun
    /\ run' = [kind |-> "login", app |-> app, pc |-> "probe", log |-> <<"status">>,
               status |-> FALSE, device |-> NoDevice, chosen |-> NoApp, outcome |-> "-",
               before |-> [cookies |-> self.cookies, user_id |-> self.user_id, fs |-> fs]]
    /\ UNCHANGED <<self, fs, clock, lock, call, logins, last>>

\* mutant: the answer of the probe is recorded, and the login goes on anyway
LoginProbe_ignored(status) ==
    /\ run.kind = "login" /\ run.pc = "probe"
    /\ run' = [run EXCEPT !.status = status, !.pc = "qrcode", !.chosen = OrDefault(run.app)]
    /\ UNCHANGED <<self, fs, clock, lock, call, logins, last>>

\* the probe answers status; without a session the app is settled, or the
\* device lookup of login_app is issued
LoginProbe(status) ==
    /\ run.kind = "login" /\ run.pc = "probe"
    /\ run' = IF status THEN [run EXCEPT !.status = TRUE, !.pc = "done", !.outcome = "self"]
              ELSE IF run.app # NoApp THEN [run EXCEPT !.pc = "qrcode", !.chosen = run.app]
              ELSE IF NeedsLookup(self.cookies)
              THEN [run EXCEPT !.pc = "lookup", !.log = Append(@, "devices")]
              ELSE [run EXCEPT !.pc = "qrcode",
                               !.chosen = OrDefault(login_app(self.cookies, NoDevice))]
    /\ UNCHANGED <<self, fs, clock, lock, call, logins, last>>

\* login_device answers
LoginLookup(device) ==
    /\ run.kind = "login" /\ run.pc = "lookup"
    /\ run' = [run EXCEPT !.pc = "qrcode", !.device = device,
                          !.chosen = OrDefault(login_app(self.cookies, device))]
    /\ UNCHANGED <<self, fs, clock, lock, call, logins, last>>

\* "setattr(self, 'cookies', resp['data']['cookie'])", W being the world after it
LoginAssigned(W) ==
    /\ W.clock <= MaxClock
    /\ Commit(W)
    /\ run' = [run EXCEPT !.pc = "done", !.log = @ \o <<"token", "result">>,
                          !.outcome = IF W.raised THEN "setter" ELSE "self"]

\* login_with_qrcode(app) ends with the cookies of the login, which are assigned
LoginQrcode ==
    /\ run.kind = "login" /\ run.pc = "qrcode"
    /\ logins < MaxLogins
    /\ LoginAssigned(cookies_setter(Cur, [kind |-> "map",
                                          m |-> <<<<"UID", LoginUID(logins + 1)>>>>]))
    /\ logins' = logins + 1
    /\ UNCHANGED <<lock, call, last>>

\* login_with_qrcode(app) raises (the code expired, the scan was canceled)
LoginQrcodeFails ==
    /\ run.kind = "login" /\ run.pc = "qrcode"
    /\ run' = [run EXCEPT !.pc = "done", !.log = Append(@, "token"), !.outcome = "LoginError"]
    /\ UNCHANGED <<self, fs, clock, lock, call, logins, last>>

\* the cookies a client is constructed from: of a code the table knows, of
\* one it does not know, or none
LoginCookies ==
    {Str(<<<<"UID", LoginUID(0)>>>>, FALSE), Str(<<<<"UID", <<"1", "Z9", "0">>>>>>, FALSE),
     EmptyStr}

InitLogin ==
    /\ \E path \in BOOLEAN, cookies \in LoginCookies :
            Constructed(__init__(path, cookies,
                                 IF path THEN [content |-> cookies, mtime |-> 1]
                                 ELSE [content |-> EmptyStr, mtime |-> 0],
                                 IF path THEN 1 ELSE 0, FALSE))
    /\ InitRest

NextLogin ==
    \/ \E app \in AppArgs : LoginStart(app)
    \/ \E status \in BOOLEAN : LoginProbe(status)
    \/ \E device \in Devices : LoginLookup(device)
    \/ LoginQrcode
    \/ LoginQrcodeFails
    \/ RunEnds

SpecLogin == InitLogin /\ [][NextLogin]_vars

----------------------------------------------------------------------------
(* The upload pipeline: upload_file_init and upload_file *)

\* "1 << 20"
MiB == 1048576

MaxTokens == 2

\* the lengths of the content sources, and the filesize arguments (-1: to be
\* determined)
Lens == {MiB - 1, MiB}
FileSizes == {-1} \cup Lens

\* a hex digest: what it is the digest of, and the case of its letters
Sha1(of) == [of |-> of, upper |-> FALSE]
Upper(h) == [h EXCEPT !.upper = TRUE]

\* the sha1 of the whole content, as the caller passes it or as it is computed
FileSha1 == Sha1(<<"file">>)

\* f"U_1_{pid}"
Target(pid) == <<"U_1_", pid>>

\* the byte span a sign_check "start-end" names, and the one the service asks
Span(start, end) == <<start, end>>
SignCheck == Span(1, 3)

\* the sign_key of a negotiation: none, or the one of the challenge
NoSignKey == ""
SignKey == "k"
NoSignVal == Sha1(<<>>)

\* read_range_bytes_or_hash of upload_file for a buffer (curpos 0) and for a
\* seekable stream: the bytes of the span, counted from curpos
read_range_bytes(curpos, sign_check) == Span(curpos + sign_check[1], curpos + sign_check[2])

\* mutant: the span is read from the start of the stream
SignVal_nopos(reader, curpos, sign_check) == Upper(Sha1(sign_check))

\* a read_range_bytes_or_hash that returns the digest of the span as a str
read_range_hash(curpos, sign_check) == Sha1(read_range_bytes(curpos, sign_check))

\* the sign_val of the second negotiation: "data.upper()" for a str,
\* "sha1(data).hexdigest().upper()" for bytes
SignVal(reader, curpos, sign_check) ==
    IF reader = "hash" THEN Upper(read_range_hash(curpos, sign_check))
    ELSE Upper(Sha1(read_range_bytes(curpos, sign_check)))

\* the fields of the negotiation request _upload_file_init sends
Payload(r, sign_key, sign_val) ==
    [fileid |-> Upper(r.filesha1), filename |-> r.filename, filesize |-> r.filesize,
     target |-> Target(r.pid), sign_key |-> sign_key, sign_val |-> sign_val]

\* the answers of the service to a negotiation: (status, statuscode)
Negotiations ==
    {[status |-> 2, statuscode |-> 0], [status |-> 1, statuscode |-> 0],
     [status |-> 7, statuscode |-> 701], [status |-> 0, statuscode |-> 402]}

NoData == [target |-> <<>>, file_name |-> "", file_size |-> 0, sha1 |-> NoSignVal, cid |-> 0]
NoResp == [status |-> 0, statuscode |-> 0, state |-> FALSE, data |-> NoData]

\* mutant: the response of the service is returned as it came
InitResponse_raw(r, n) ==
    [status |-> n.status, statuscode |-> n.statuscode, state |-> FALSE, data |-> NoData]

\* upload_file_init: 'resp["state"] = True; resp["data"] = {...}'
InitResponse(r, n) ==
    [status |-> n.status, statuscode |-> n.statuscode, state |-> TRUE,
     data |-> [target |-> Target(r.pid), file_name |-> r.filename, file_size |-> r.filesize,
               sha1 |-> Upper(r.filesha1), cid |-> r.pid]]

\* mutant: the size is not looked at
EnterInit_nocheck(r) ==
    [r EXCEPT !.pc = "negotiate", !.log = Append(@, "upload_init"),
              !.sent = Append(@, Payload(r, NoSignKey, NoSignVal))]

\* upload_file_init is entered: the check of the size, then the first negotiation
EnterInit(r) ==
    IF r.filesize >= MiB /\ r.reader = "none"
    THEN [r EXCEPT !.pc = "done", !.outcome = "ValueError"]
    ELSE [r EXCEPT !.pc = "negotiate", !.log = Append(@, "upload_init"),
                   !.sent = Append(@, Payload(r, NoSignKey, NoSignVal))]

\* the challenge (7, 701): one read of the span, one more negotiation
Challenged(r) ==
    IF r.reader = "none"
    THEN [r EXCEPT !.pc = "done", !.outcome = "ValueError", !.challenged = TRUE]
    ELSE [r EXCEPT !.pc = "negotiate2", !.challenged = TRUE,
                   !.reads = Append(@, read_range_bytes(r.curpos, SignCheck)),
                   !.log = @ \o <<"read", "upload_init">>,
                   !.sent = Append(@, Payload(r, SignKey, SignVal(r.reader, r.curpos, SignCheck)))]

\* upload_file_init returns resp; upload_file returns it, goes on to the
\* token, or raises
InitReturns(r, resp) ==
    IF r.kind = "upload_file_init" \/ (resp.status = 2 /\ resp.statuscode = 0)
    THEN [r EXCEPT !.pc = "done", !.outcome = "returned", !.resp = resp]
    ELSE IF resp.status = 1 /\ resp.statuscode = 0
    THEN [r EXCEPT !.pc = "token", !.resp = resp, !.log = Append(@, "upload_token")]
    ELSE [r EXCEPT !.pc = "done", !.outcome = "P115OSError", !.resp = resp]

\* what upload_file has settled when it leaves its branch on the kind of the
\* file: whether the content was hashed, whether it was copied to a
\* temporary file, the size, the reader, and the resume record still at hand
Prepared(hashed, copied, filesize, reader, curpos, resume) ==
    [hashed |-> hashed, copied |-> copied, filesize |-> filesize,
     reader |-> reader, curpos |-> curpos, resume |-> resume]

\* "need_calc_filesha1"
need_calc_filesha1(sha1given, direct, resume) == ~sha1given /\ ~direct /\ ~resume

\* the size of a stream whose filesize is negative
StreamSize(seekable, sized, len) == IF sized \/ seekable THEN len ELSE 0

\* the branch of a stream that is read where it is
StreamHere(seekable, curpos, filesize, need, direct, resume) ==
    IF ~direct /\ ~resume /\ filesize >= MiB
    THEN IF seekable THEN Prepared(need, FALSE, filesize, "bytes", curpos, resume)
         ELSE Prepared(need, FALSE, 0, "none", curpos, resume)
    ELSE Prepared(need, FALSE, filesize, "none", curpos, resume)

\* the branch "isinstance(file, SupportsRead)"; a stream without seek that
\* has to be hashed is copied to a temporary file, and upload_file is called
\* on it without the resume record
StreamFile(seekable, sized, curpos, len, filesize, sha1given, direct, resume) ==
    IF need_calc_filesha1(sha1given, direct, resume)
    THEN IF seekable
         THEN StreamHere(TRUE, curpos, len, TRUE, direct, resume)
         ELSE [StreamHere(TRUE, 0, len, TRUE, direct, FALSE) EXCEPT !.copied = TRUE]
    ELSE StreamHere(seekable, curpos,
                    IF filesize < 0 THEN StreamSize(seekable, sized, len) ELSE filesize,
                    FALSE, direct, resume)

\* the branch "isinstance(file, Buffer)"
BufferFile(len, sha1given, direct, resume) ==
    Prepared(need_calc_filesha1(sha1given, direct, resume), FALSE, len,
             IF ~direct /\ ~resume /\ len >= MiB THEN "bytes" ELSE "none", 0, resume)

\* the branches of a path and of a URL: the file is opened, and upload_file
\* is called on it without the resume record
OpenedFile(len, filesize, sha1given, direct) ==
    StreamFile(TRUE, TRUE, 0, len, filesize, sha1given, direct, FALSE)

\* the last branch, an iterator of chunks: to be hashed it is wrapped into a
\* reader and upload_file is called on it, without the resume record
IterFile(len, filesize, sha1given, direct, resume) ==
    IF need_calc_filesha1(sha1given, direct, resume)
    THEN StreamFile(FALSE, FALSE, 0, len, filesize, sha1given, direct, FALSE)
    ELSE StreamHere(FALSE, 0, filesize, FALSE, direct, resume)

Kinds == {"buffer", "path", "stream", "url", "iter"}

\* upload_file up to the end of its branch on the kind of the file
Prepare(kind, seekable, sized, curpos, len, filesize, sha1given, direct, resume) ==
    IF kind = "buffer" THEN BufferFile(len, sha1given, direct, resume)
    ELSE IF kind \in {"path", "url"} THEN OpenedFile(len, filesize, sha1given, direct)
    ELSE IF kind = "stream"
    THEN StreamFile(seekable, sized, curpos, len, filesize, sha1given, direct, resume)
    ELSE IterFile(len, filesize, sha1given, direct, resume)

\* the call of upload_file as its arguments give it
UploadRun(kind, seekable, sha1given, direct, partsize, resume, size, token, close_file) ==
    [kind |-> "upload_file", file |-> kind, seekable |-> seekable, given |-> resume,
     size |-> size, challenged |-> FALSE,
     direct |-> direct, partsize |-> partsize, sha1given |-> sha1given,
     filename |-> "f", pid |-> 7, filesha1 |-> FileSha1,
     filesize |-> 0, reader |-> "none", curpos |-> 0, hashed |-> FALSE, copied |-> FALSE,
     resume |-> FALSE, pc |-> "-", outcome |-> "-", log |-> <<>>, sent |-> <<>>,
     reads |-> <<>>, resp |-> NoResp, tokens |-> 0, bg |-> "-",
     close_file |-> close_file, closed |-> FALSE, token |-> token, passed |-> "-"]

\* the token argument of the transfer: that of the resume record, which is
\* absent when the record has none, or the token acquired after the
\* negotiation
TokenPassed(r) ==
    IF r.resume THEN (IF r.token THEN "record" ELSE "absent") ELSE "acquired"

\* the transfer is called
EnterTransfer(r) == [r EXCEPT !.pc = "transfer", !.passed = TokenPassed(r)]

\* upload_file after its branch on the file: the transfer of the resume
\* record, after the token when the record has none, the direct upload, or
\* upload_file_init
AfterPrepare(r, P, token) ==
    IF P.resume
    THEN IF token
         THEN EnterTransfer([r EXCEPT !.hashed = P.hashed, !.copied = P.copied,
                                      !.resume = TRUE, !.filesize = P.filesize,
                                      !.curpos = P.curpos])
         ELSE [r EXCEPT !.hashed = P.hashed, !.copied = P.copied, !.resume = TRUE,
                        !.filesize = P.filesize, !.curpos = P.curpos,
                        !.pc = "token", !.log = Append(@, "upload_token")]
    ELSE IF r.direct
    THEN [r EXCEPT !.hashed = P.hashed, !.copied = P.copied,
                   !.filesize = IF P.filesize < 0 THEN 0 ELSE P.filesize,
                   !.curpos = P.curpos, !.pc = "done", !.outcome = "returned",
                   !.log = Append(@, "upload_file_sample")]
    ELSE EnterInit([r EXCEPT !.hashed = P.hashed, !.copied = P.copied,
                             !.filesize = IF P.filesize < 0 THEN 0 ELSE P.filesize,
                             !.reader = P.reader, !.curpos = P.curpos])

\* upload_file(file, ...) is called
UploadFile(kind, seekable, sized, curpos, len, filesize, sha1given, direct, partsize, resume, token, close_file) ==
    /\ run = NoRun
    /\ run' = AfterPrepare(UploadRun(kind, seekable, sha1given, direct, partsize, resume,
                                     IF filesize < 0 THEN len ELSE filesize,
                                     resume /\ token, (kind = "path") \/ close_file),
                           Prepare(kind, seekable, sized, curpos, len, filesize,
                                   sha1given, direct, resume),
                           token)
    /\ UNCHANGED <<self, fs, clock, lock, call, logins, last>>

\* upload_file_init(filename, filesize, filesha1, read_range_bytes_or_hash, pid)
\* is called by the program
UploadFileInit(filesize, reader, pid) ==
    /\ run = NoRun
    /\ run' = EnterInit([UploadRun("-", FALSE, TRUE, FALSE, 0, FALSE, filesize, FALSE, FALSE) EXCEPT
                            !.kind = "upload_file_init", !.filesize = filesize,
                            !.reader = reader, !.pid = pid])
    /\ UNCHANGED <<self, fs, clock, lock, call, logins, last>>

\* the service answers the first negotiation
Negotiated(n) ==
    /\ run.kind \in {"upload_file", "upload_file_init"} /\ run.pc = "negotiate"
    /\ run' = IF n.status = 7 /\ n.statuscode = 701 THEN Challenged(run)
              ELSE InitReturns(run, InitResponse(run, n))
    /\ UNCHANGED <<self, fs, clock, lock, call, logins, last>>

\* the service answers the negotiation that carried sign_val
NegotiatedAgain(n) ==
    /\ run.kind \in {"upload_file", "upload_file_init"} /\ run.pc = "negotiate2"
    /\ run' = InitReturns(run, InitResponse(run, n))
    /\ UNCHANGED <<self, fs, clock, lock, call, logins, last>>

\* "while True: token = upload_token(); if token['StatusCode'] == '200': break"
UploadToken(ok) ==
    /\ run.kind = "upload_file" /\ run.pc = "token"
    /\ run.tokens < MaxTokens
    /\ run' = IF ok THEN EnterTransfer([run EXCEPT !.tokens = @ + 1])
              ELSE [run EXCEPT !.tokens = @ + 1, !.log = Append(@, "upload_token")]
    /\ run.tokens + 1 = MaxTokens => ok
    /\ UNCHANGED <<self, fs, clock, lock, call, logins, last>>

\* mutant: the negotiation is issued again whatever the transfer answered
Transferred_always(r, state) ==
    [r EXCEPT !.pc = "done", !.outcome = "returned", !.resp = [NoResp EXCEPT !.state = state],
              !.log = @ \o <<IF r.partsize > 0 THEN "oss_multipart_upload" ELSE "oss_upload",
                             "upload_file_init">>,
              !.bg = "running"]

\* "elif close_file:" closes the object the call transferred, which is the
\* temporary copy and not the source when the source was copied
Closes(r) == r.close_file /\ ~r.copied

\* the transfer has answered with state: the negotiation is issued again in
\* another thread, and the answer of the transfer is returned; without a
\* second negotiation the file is closed when close_file is set
Transferred(r, state) ==
    IF r.resume
    THEN [r EXCEPT !.pc = "done", !.outcome = "returned",
                   !.resp = [NoResp EXCEPT !.state = state],
                   !.log = Append(@, "oss_multipart_upload")]
    ELSE IF state /\ r.reader # "none"
    THEN [r EXCEPT !.pc = "done", !.outcome = "returned",
                   !.resp = [NoResp EXCEPT !.state = state],
                   !.log = @ \o <<IF r.partsize > 0 THEN "oss_multipart_upload" ELSE "oss_upload",
                                  "upload_file_init">>,
                   !.bg = "running"]
    ELSE [r EXCEPT !.pc = "done", !.outcome = "returned",
                   !.resp = [NoResp EXCEPT !.state = state],
                   !.log = Append(@, IF r.partsize > 0 THEN "oss_multipart_upload"
                                     ELSE "oss_upload"),
                   !.closed = Closes(r)]

\* oss_upload or oss_multipart_upload returns
Transfer(state) ==
    /\ run.kind = "upload_file" /\ run.pc = "transfer"
    /\ run' = Transferred(run, state)
    /\ UNCHANGED <<self, fs, clock, lock, call, logins, last>>

\* oss_upload or oss_multipart_upload raises
TransferRaises ==
    /\ run.kind = "upload_file" /\ run.pc = "transfer"
    /\ run' = [run EXCEPT !.pc = "done", !.outcome = "raised",
                          !.log = Append(@, IF run.partsize > 0 \/ run.resume
                                            THEN "oss_multipart_upload" ELSE "oss_upload")]
    /\ UNCHANGED <<self, fs, clock, lock, call, logins, last>>

\* read_range_bytes_or_hash(sign_check, close=close_file) of a seekable
\* stream closes the file after the read; the reader of a buffer ignores close
ReaderCloses(r) == Closes(r) /\ r.file # "buffer"

\* the thread of the second upload_file_init ends, returning or raising,
\* after the service has challenged it (the reader was called) or not
BackgroundEnds(outcome, challenged) ==
    /\ run.kind = "upload_file" /\ run.bg = "running"
    /\ run' = [run EXCEPT !.bg = outcome,
                          !.closed = @ \/ (challenged /\ ReaderCloses(run))]
    /\ UNCHANGED <<self, fs, clock, lock, call, logins, last>>

InitUpload == InitClient({FALSE}, {FALSE}, {FALSE}) /\ InitRest

NextUpload ==
    \/ /\ run = NoRun
       /\ \E kind \in Kinds, seekable, sized, sha1given, direct, resume, token \in BOOLEAN,
             curpos \in {0, 2}, len \in Lens, filesize \in FileSizes, partsize \in {0, 1},
             close_file \in BOOLEAN :
            UploadFile(kind, seekable, sized, curpos, len, filesize, sha1given, direct,
                       partsize, resume, token, close_file)
    \/ \E filesize \in Lens, reader \in {"none", "bytes", "hash"}, pid \in {0, 7} :
            UploadFileInit(filesize, reader, pid)
    \/ \E n \in Negotiations : Negotiated(n)
    \/ \E n \in Negotiations : NegotiatedAgain(n)
    \/ \E ok \in BOOLEAN : UploadToken(ok)
    \/ \E state \in BOOLEAN : Transfer(state)
    \/ TransferRaises
    \/ \E outcome \in {"returned", "raised"}, challenged \in BOOLEAN :
            BackgroundEnds(outcome, challenged)
    \/ RunEnds

SpecUpload == InitUpload /\ [][NextUpload]_vars

----------------------------------------------------------------------------
(* check_response *)

\* the keys a code is looked for under, in the order of the if/elif chain
Fields == <<"errno", "errNo", "errcode", "code", "msg_code">>
FieldSet == {Fields[i] : i \in 1..Len(Fields)}

\* a key that the body does not have
NoKey == -1

\* the codes of the bodies: those of the case clauses, and one of no clause
OtherCode == 1
Codes ==
    {99, 911, 20004, 20009, 50003, 90008, 91002, 91004, 91005, 231011, 300104, 980006,
     990005, 990009, 990023, 40100000, 40101004, 40101017, 40101032, 990001, 50028,
     70004, 70005, OtherCode}

\* the keys of a body: none, one with any code, or two
NoCodes == [f \in FieldSet |-> NoKey]
BodyCodes ==
    {NoCodes}
    \cup {[NoCodes EXCEPT ![g] = c] : g \in FieldSet, c \in Codes}
    \cup {[NoCodes EXCEPT ![g] = c, ![h] = d] :
            g \in FieldSet, h \in FieldSet, c \in {99, 911, OtherCode}, d \in {99, 70004}}

\* resp.get("state", True) of a body: the key is absent, truthy or falsy
States == {"absent", "truthy", "falsy"}

\* what check_response is given: a dict, something that is no dict, or an
\* awaitable of one of the two
Bodies ==
    [dict : {TRUE}, pending : BOOLEAN, state : States, codes : BodyCodes]
    \cup [dict : {FALSE}, pending : BOOLEAN, state : {"absent"}, codes : {NoCodes}]

Raised(kind, errno) == [raised |-> TRUE, kind |-> kind, errno |-> errno, carries |-> TRUE]
Returned(what) == [raised |-> FALSE, kind |-> what, errno |-> "-", carries |-> FALSE]

\* "if 'errno' in resp: match resp['errno']"
match_errno(c) ==
    CASE c \in {99, 40101004, 40101032} -> Raised("LoginError", "EIO")
      [] c \in {911, 40101017} -> Raised("AuthenticationError", "EIO")
      [] c = 20004 -> Raised("FileExistsError", "EEXIST")
      [] c \in {20009, 50003, 90008, 231011} -> Raised("FileNotFoundError", "ENOENT")
      [] c \in {91002, 91004} -> Raised("NotSupportedError", "ENOTSUP")
      [] c = 91005 -> Raised("OperationalError", "ENOSPC")
      [] c = 300104 -> Raised("P115OSError", "EFBIG")
      [] c = 980006 -> Raised("NotSupportedError", "ENOSYS")
      [] c \in {990005, 990009} -> Raised("BusyOSError", "EBUSY")
      [] c = 990023 -> Raised("OperationalError", "ENOTSUP")
      [] c = 40100000 -> Raised("OperationalError", "EINVAL")
      [] OTHER -> Raised("P115OSError", "EIO")

\* "elif 'msg_code' in resp: match resp['msg_code']"
match_msg_code(c) ==
    CASE c = 50028 -> Raised("P115OSError", "EFBIG")
      [] c = 70004 -> Raised("IsADirectoryError", "EISDIR")
      [] c = 70005 -> Raised("FileNotFoundError", "ENOENT")
      [] OTHER -> Raised("P115OSError", "EIO")

\* the inner function check(resp)
check(b) ==
    IF ~b.dict THEN Raised("P115OSError", "EIO")
    ELSE IF b.state # "falsy" THEN Returned("resp")
    ELSE IF b.codes["errno"] # NoKey THEN match_errno(b.codes["errno"])
    ELSE IF b.codes["errNo"] # NoKey
    THEN IF b.codes["errNo"] = 990001 THEN Raised("AuthenticationError", "EIO")
         ELSE Raised("P115OSError", "EIO")
    ELSE IF b.codes["errcode"] # NoKey
    THEN IF b.codes["errcode"] = 911 THEN Raised("AuthenticationError", "EIO")
         ELSE Raised("P115OSError", "EIO")
    ELSE IF b.codes["code"] # NoKey
    THEN IF b.codes["code"] = 99 THEN Raised("AuthenticationError", "EIO")
         ELSE Raised("P115OSError", "EIO")
    ELSE IF b.codes["msg_code"] # NoKey THEN match_msg_code(b.codes["msg_code"])
    ELSE Raised("P115OSError", "EIO")

\* "return check(await resp)": awaiting what is no awaitable is a TypeError
check_await(b) ==
    IF b.pending THEN check(b)
    ELSE [raised |-> TRUE, kind |-> "TypeError", errno |-> "-", carries |-> FALSE]

\* check_response(resp): check(resp) for a dict, the coroutine check_await()
\* for everything else
CheckResponse(b) ==
    /\ run = NoRun
    /\ run' = IF b.dict /\ ~b.pending
              THEN [kind |-> "check_response", body |-> b, pc |-> "done", result |-> check(b)]
              ELSE [kind |-> "check_response", body |-> b, pc |-> "coroutine",
                    result |-> Returned("coroutine")]
    /\ UNCHANGED <<self, fs, clock, lock, call, logins, last>>

\* the caller awaits the coroutine
Awaited ==
    /\ run.kind = "check_response" /\ run.pc = "coroutine"
    /\ run' = [run EXCEPT !.pc = "done", !.result = check_await(run.body)]
    /\ UNCHANGED <<self, fs, clock, lock, call, logins, last>>

\* the caller does not await what it got
NotAwaited ==
    /\ run.kind = "check_response" /\ run.pc = "coroutine"
    /\ run' = [run EXCEPT !.pc = "done"]
    /\ UNCHANGED <<self, fs, clock, lock, call, logins, last>>

InitCheck == InitClient({FALSE}, {FALSE}, {FALSE}) /\ InitRest

NextCheck ==
    \/ \E b \in Bodies : CheckResponse(b)
    \/ Awaited
    \/ NotAwaited
    \/ RunEnds

SpecCheck == InitCheck /\ [][NextCheck]_vars

----------------------------------------------------------------------------
(* Reading a range of a file: read_bytes, read_bytes_range, read_block *)

MaxOff == 3

\* the lengths of the files, and the indices and sizes callers pass
ReadLens == {2, 3, 12}
Offsets == (-MaxOff..MaxOff) \cup {-10}

\* a stop or an index that is None
NoStop == [none |-> TRUE, v |-> 0]
Stop(v) == [none |-> FALSE, v |-> v]
Stops == {NoStop} \cup {Stop(v) : v \in Offsets}

\* the Range header "bytes=-1", "bytes={start}-" and "bytes={start}-{end}";
\* NoRange for None
Suffix(n) == [unit |-> "suffix", a |-> n, b |-> 0]
From(start) == [unit |-> "from", a |-> start, b |-> 0]
Between(start, end) == [unit |-> "between", a |-> start, b |-> end]
NoRange == [unit |-> "none", a |-> 0, b |-> 0]

\* the bytes of a file are named by their indices
Bytes(first, end) == [k \in 1..(end - first + 1) |-> first + k - 1]

Min(a, b) == IF a < b THEN a ELSE b
Max(a, b) == IF a > b THEN a ELSE b

\* what the server answers to a Range on a file of length: the bytes, or 416
\* for a range that starts at or after the end
Serve(length, range) ==
    IF range.unit = "suffix"
    THEN [raised |-> FALSE, data |-> Bytes(Max(0, length - range.a), length - 1)]
    ELSE IF range.a >= length THEN [raised |-> TRUE, data |-> <<>>]
    ELSE IF range.unit = "from"
    THEN [raised |-> FALSE, data |-> Bytes(range.a, length - 1)]
    ELSE [raised |-> FALSE, data |-> Bytes(range.a, Min(range.b, length - 1))]

\* "if start < 0 or (stop and stop < 0)"
NeedsLength(start, stop) == start < 0 \/ (~stop.none /\ stop.v < 0)

\* mutant: an empty range is requested like any other
RangeOf_noempty(start, stop) ==
    IF stop.none THEN From(start)
    ELSE Between(start, stop.v - 1)

\* the end of get_bytes_range, on the start and stop it has by then
RangeOf(start, stop) ==
    IF stop.none THEN From(start)
    ELSE IF start >= stop.v THEN NoRange
    ELSE Between(start, stop.v - 1)

\* the branch of get_bytes_range that has asked for the length
WithLength(start, stop, length) ==
    RangeOf(IF start < 0 THEN Max(0, start + length) ELSE start,
            IF ~stop.none /\ stop.v < 0 THEN Stop(stop.v + length) ELSE stop)

\* read_bytes goes on with the range it has: b"" for none, the request
AfterRange(r, range) ==
    IF range = NoRange
    THEN [r EXCEPT !.pc = "done", !.outcome = "returned", !.result = <<>>]
    ELSE [r EXCEPT !.pc = "data", !.reqs = Append(@, range)]

\* mutant: the length is asked for only for a negative start
EnterRead_startonly(r) ==
    IF r.start < 0
    THEN [r EXCEPT !.pc = "probe", !.reqs = Append(@, Suffix(1))]
    ELSE AfterRange(r, RangeOf(r.start, r.stop))

\* read_bytes(url, start, stop) is entered
EnterRead(r) ==
    IF NeedsLength(r.start, r.stop)
    THEN [r EXCEPT !.pc = "probe", !.reqs = Append(@, Suffix(1))]
    ELSE AfterRange(r, RangeOf(r.start, r.stop))

ReadRun(op, length, start, stop, size) ==
    [kind |-> "read", op |-> op, length |-> length, start |-> start, stop |-> stop,
     size |-> size, pc |-> "-", outcome |-> "-", reqs |-> <<>>, result |-> <<>>]

\* read_bytes(url, start, stop) is called on a file of length
ReadBytes(length, start, stop) ==
    /\ run = NoRun
    /\ run' = EnterRead(ReadRun("read_bytes", length, start, stop, 0))
    /\ UNCHANGED <<self, fs, clock, lock, call, logins, last>>

\* read_block(url, size, offset) is called on a file of length
ReadBlock(length, size, offset) ==
    /\ run = NoRun
    /\ run' = IF size = 0
              THEN [ReadRun("read_block", length, offset, NoStop, size) EXCEPT
                        !.pc = "done", !.outcome = "returned"]
              ELSE EnterRead(ReadRun("read_block", length, offset,
                                     IF size > 0 THEN Stop(offset + size) ELSE NoStop, size))
    /\ UNCHANGED <<self, fs, clock, lock, call, logins, last>>

\* the request for the length is answered
LengthRead ==
    /\ run.kind = "read" /\ run.pc = "probe"
    /\ run' = AfterRange(run, WithLength(run.start, run.stop, run.length))
    /\ UNCHANGED <<self, fs, clock, lock, call, logins, last>>

\* the request for the data is answered
DataRead ==
    /\ run.kind = "read" /\ run.pc = "data"
    /\ run' = IF Serve(run.length, run.reqs[Len(run.reqs)]).raised
              THEN [run EXCEPT !.pc = "done", !.outcome = "raised"]
              ELSE [run EXCEPT !.pc = "done", !.outcome = "returned",
                               !.result = Serve(run.length, run.reqs[Len(run.reqs)]).data]
    /\ UNCHANGED <<self, fs, clock, lock, call, logins, last>>

\* a request of the read fails
ReadFails ==
    /\ run.kind = "read" /\ run.pc \in {"probe", "data"}
    /\ run' = [run EXCEPT !.pc = "done", !.outcome = "raised"]
    /\ UNCHANGED <<self, fs, clock, lock, call, logins, last>>

InitRead == InitClient({FALSE}, {FALSE}, {FALSE}) /\ InitRest

NextRead ==
    \/ \E length \in ReadLens, start \in Offsets, stop \in Stops : ReadBytes(length, start, stop)
    \/ \E length \in ReadLens, size \in Offsets, offset \in Offsets : ReadBlock(length, size, offset)
    \/ LengthRead
    \/ DataRead
    \/ ReadFails
    \/ RunEnds

SpecRead == InitRead /\ [][NextRead]_vars

----------------------------------------------------------------------------
(* extract_file and hashes, in their blocking and non-blocking branches *)

MaxPages == 3

\* the entries of an archive: a name and file_category (truthy for a file)
ArchiveFile == [file_name |-> "a", file_category |-> 1]
ArchiveDir == [file_name |-> "b", file_category |-> 0]
Lists == {<<>>, <<ArchiveFile>>, <<ArchiveDir>>, <<ArchiveFile, ArchiveDir>>, <<ArchiveDir, ArchiveFile>>}

\* the answers of extract_list: state, data.list and data.next_marker
NoMarker == ""
Pages == [state : BOOLEAN, list : Lists, next_marker : {NoMarker, "m", "n"}]

\* 'p["file_name"] if p["file_category"] else p["file_name"]+"/"'
PathOf(p) == IF p.file_category # 0 THEN <<p.file_name>> ELSE <<p.file_name, "/">>

PathsOf(list) == [k \in 1..Len(list) |-> PathOf(list[k])]

\* '("extract_dir[]" if path.endswith("/") else "extract_file[]", path.strip("/"))'
FieldOf(path) ==
    IF path # <<>> /\ path[Len(path)] = "/"
    THEN <<"extract_dir[]", SubSeq(path, 1, Len(path) - 1)>>
    ELSE <<"extract_file[]", path>>

\* mutant: every path is submitted as a file
DataOf_files(paths) == [k \in 1..Len(paths) |-> <<"extract_file[]", FieldOf(paths[k])[2]>>]

\* the fields that name the paths in the payload of extract_add_file
DataOf(paths) == [k \in 1..Len(paths) |-> FieldOf(paths[k])]

\* the paths argument: none, or a list of paths
NoPaths == <<>>
PathArgs == {NoPaths, <<<<"c">>>>, <<<<"c">>, <<"d", "/">>>>}

\* a request of an operation: the method called, the next_marker of a
\* listing, the fields of an extraction
Listing(marker) == [api |-> "extract_list", marker |-> marker, data |-> <<>>]
Extraction(paths) == [api |-> "extract_add_file", marker |-> NoMarker, data |-> DataOf(paths)]
FileRead(api) == [api |-> api, marker |-> NoMarker, data |-> <<>>]

\* an execution of an operation in one mode
Exec(op, async_) ==
    [kind |-> op, async_ |-> async_, pc |-> "-", reqs |-> <<>>, paths |-> <<>>, pages |-> <<>>,
     outcome |-> "-", state |-> FALSE, size |-> 0, start |-> 0, stop |-> NoStop]

\* extract_file(pickcode, paths) up to its first request
ExtractEnter(async_, paths) ==
    IF paths = NoPaths
    THEN [Exec("extract_file", async_) EXCEPT !.pc = "list", !.reqs = <<Listing(NoMarker)>>]
    ELSE [Exec("extract_file", async_) EXCEPT
              !.pc = "add", !.paths = paths, !.reqs = <<Extraction(paths)>>]

\* mutant: the listing stops after its first page
ExtractListed_onepage(x, page) ==
    IF Len(x.reqs) = 1 /\ ~page.state
    THEN [x EXCEPT !.pc = "done", !.outcome = "returned", !.state = FALSE,
                   !.pages = Append(@, page)]
    ELSE [x EXCEPT !.pc = "add", !.paths = @ \o PathsOf(page.list), !.pages = Append(@, page),
                   !.reqs = Append(@, Extraction(x.paths \o PathsOf(page.list)))]

\* a page of the listing is answered: the first one may report failure; a
\* next_marker asks for the next page, none ends the listing
ExtractListed(x, page) ==
    IF Len(x.reqs) = 1 /\ ~page.state
    THEN [x EXCEPT !.pc = "done", !.outcome = "returned", !.state = FALSE,
                   !.pages = Append(@, page)]
    ELSE IF page.next_marker # NoMarker
    THEN [x EXCEPT !.paths = @ \o PathsOf(page.list), !.pages = Append(@, page),
                   !.reqs = Append(@, Listing(page.next_marker))]
    ELSE [x EXCEPT !.pc = "add", !.paths = @ \o PathsOf(page.list), !.pages = Append(@, page),
                   !.reqs = Append(@, Extraction(x.paths \o PathsOf(page.list)))]

\* extract_add_file is answered
ExtractAdded(x, state) == [x EXCEPT !.pc = "done", !.outcome = "returned", !.state = state]

\* hashes(url, start=start, stop=stop) up to the opened file
HashesEnter(async_, start, stop) ==
    [Exec("hashes", async_) EXCEPT !.pc = "opened", !.start = start, !.stop = stop]

\* the number of bytes file_mdigest is told to stop after
DigestStop(x, length) ==
    Max(0, (IF x.stop.v < 0 THEN x.stop.v + length ELSE x.stop.v) - x.start)

\* mutant: the non-blocking branch passes the file and the digests as the
\* blocking one does
HashesDigest_comma(x, length) ==
    IF x.stop.none
    THEN [x EXCEPT !.pc = "done", !.outcome = "returned", !.reqs = Append(@, FileRead("read")),
                   !.size = Max(0, length - x.start)]
    ELSE [x EXCEPT !.pc = "done", !.outcome = "returned",
                   !.reqs = @ \o (IF x.stop.v < 0 THEN <<FileRead("length")>> ELSE <<>>)
                              \o <<FileRead("read")>>,
                   !.size = Min(DigestStop(x, length), Max(0, length - x.start))]

\* the body of "with self.open(...) as file": the digest of the file to its
\* end, or to stop; "file *digests" of the non-blocking branch is a TypeError
HashesDigest(x, length) ==
    IF x.stop.none
    THEN [x EXCEPT !.pc = "done", !.outcome = "returned", !.reqs = Append(@, FileRead("read")),
                   !.size = Max(0, length - x.start)]
    ELSE IF x.async_
    THEN [x EXCEPT !.pc = "done", !.outcome = "TypeError",
                   !.reqs = @ \o (IF x.stop.v < 0 THEN <<FileRead("length")>> ELSE <<>>)]
    ELSE [x EXCEPT !.pc = "done", !.outcome = "returned",
                   !.reqs = @ \o (IF x.stop.v < 0 THEN <<FileRead("length")>> ELSE <<>>)
                              \o <<FileRead("read")>>,
                   !.size = Min(DigestStop(x, length), Max(0, length - x.start))]

\* extract_file(pickcode, paths, async_=async_) is called
ExtractFile(async_, paths) ==
    /\ run = NoRun
    /\ run' = ExtractEnter(async_, paths)
    /\ UNCHANGED <<self, fs, clock, lock, call, logins, last>>

\* extract_list answers with a page
ExtractList(page) ==
    /\ run.kind = "extract_file" /\ run.pc = "list"
    /\ Len(run.reqs) = MaxPages => page.next_marker = NoMarker
    /\ run' = ExtractListed(run, page)
    /\ UNCHANGED <<self, fs, clock, lock, call, logins, last>>

\* extract_add_file answers
ExtractAdd(state) ==
    /\ run.kind = "extract_file" /\ run.pc = "add"
    /\ run' = ExtractAdded(run, state)
    /\ UNCHANGED <<self, fs, clock, lock, call, logins, last>>

InitExtract == InitClient({FALSE}, {FALSE}, {FALSE}) /\ InitRest

NextExtract ==
    \/ \E async_ \in BOOLEAN, paths \in PathArgs : ExtractFile(async_, paths)
    \/ \E page \in Pages : ExtractList(page)
    \/ \E state \in BOOLEAN : ExtractAdd(state)
    \/ RunEnds

SpecExtract == InitExtract /\ [][NextExtract]_vars

\* the same call made in both modes, answered by the same responses
Both(blocking, nonblocking) ==
    [kind |-> "modes", blocking |-> blocking, nonblocking |-> nonblocking,
     pc |-> IF blocking.pc = "done" /\ nonblocking.pc = "done" THEN "done" ELSE "-"]

\* one execution goes on with a response, if it waits for one of that kind
Fed(x, op, pc, next) == IF x.kind = op /\ x.pc = pc THEN next ELSE x

BothExtractFile(paths) ==
    /\ run = NoRun
    /\ run' = Both(ExtractEnter(FALSE, paths), ExtractEnter(TRUE, paths))
    /\ UNCHANGED <<self, fs, clock, lock, call, logins, last>>

BothHashes(start, stop) ==
    /\ run = NoRun
    /\ run' = Both(HashesEnter(FALSE, start, stop), HashesEnter(TRUE, start, stop))
    /\ UNCHANGED <<self, fs, clock, lock, call, logins, last>>

BothExtractList(page) ==
    /\ run.kind = "modes"
    /\ "list" \in {run.blocking.pc, run.nonblocking.pc}
    /\ (Len(run.blocking.reqs) = MaxPages \/ Len(run.nonblocking.reqs) = MaxPages)
          => page.next_marker = NoMarker
    /\ run' = Both(Fed(run.blocking, "extract_file", "list", ExtractListed(run.blocking, page)),
                   Fed(run.nonblocking, "extract_file", "list",
                       ExtractListed(run.nonblocking, page)))
    /\ UNCHANGED <<self, fs, clock, lock, call, logins, last>>

BothExtractAdd(state) ==
    /\ run.kind = "modes"
    /\ "add" \in {run.blocking.pc, run.nonblocking.pc}
    /\ "list" \notin {run.blocking.pc, run.nonblocking.pc}
    /\ run' = Both(Fed(run.blocking, "extract_file", "add", ExtractAdded(run.blocking, state)),
                   Fed(run.nonblocking, "extract_file", "add",
                       ExtractAdded(run.nonblocking, state)))
    /\ UNCHANGED <<self, fs, clock, lock, call, logins, last>>

BothHashesDigest(length) ==
    /\ run.kind = "modes"
    /\ "opened" \in {run.blocking.pc, run.nonblocking.pc}
    /\ run' = Both(Fed(run.blocking, "hashes", "opened", HashesDigest(run.blocking, length)),
                   Fed(run.nonblocking, "hashes", "opened",
                       HashesDigest(run.nonblocking, length)))
    /\ UNCHANGED <<self, fs, clock, lock, call, logins, last>>

InitModes == InitClient({FALSE}, {FALSE}, {FALSE}) /\ InitRest

NextModes ==
    \/ \E paths \in PathArgs : BothExtractFile(paths)
    \/ \E start \in 0..MaxOff, stop \in Stops : BothHashes(start, stop)
    \/ \E page \in Pages : BothExtractList(page)
    \/ \E state \in BOOLEAN : BothExtractAdd(state)
    \/ \E length \in ReadLens : BothHashesDigest(length)
    \/ RunEnds

SpecModes == InitModes /\ [][NextModes]_vars

----------------------------------------------------------------------------
(* Claims on the re-authentication protocol *)

\* login_another_app(replace=True), called by the dispatcher for p, has not returned
InRelogin(p) == call[p].pc = "relogin" \/ call[p].nested

\* C1 (as stated): under any interleaving of blocking and non-blocking
\* callers, at most one automatic re-login is in progress at any time.
C1_AtMostOneRelogin ==
    Cardinality({p \in Callers : InRelogin(p)}) <= 1

\* C1 (amended): among the callers of one mode (all blocking, or all
\* non-blocking) at most one automatic re-login is in progress at any time,
\* and the caller in it holds the lock of its mode; a blocking and a
\* non-blocking caller may be in a re-login at the same time.
C1_AtMostOneReloginPerMode ==
    \A p \in Callers :
        InRelogin(p) =>
            /\ lock[Mode(p)] = p
            /\ \A q \in Callers \ {p} : InRelogin(q) => call[q].async_ # call[p].async_

\* a caller is in the re-login while another caller of its mode waits for the lock
C1_Witness ==
    \E p \in Callers, q \in Callers :
        /\ p # q
        /\ call[p].pc = "relogin"
        /\ call[q].async_ = call[p].async_
        /\ call[q].pc = "acquire"

\* p and q are two callers whose first attempts failed with a relogin
\* condition under the same cookie snapshot, and no re-login of theirs raised
StalePair(p, q) ==
    /\ p # q
    /\ call[p].e0 = "relogin" /\ call[q].e0 = "relogin"
    /\ call[p].snap0 = call[q].snap0
    /\ ~call[p].failed_login /\ ~call[q].failed_login

\* the retry of p after its first failure has been sent
Retried(p) == call[p].i = 1 /\ call[p].pc \in {"wait", "ok"}

SingleFlight(p, q) ==
    /\ call[p].relogins + call[q].relogins <= 1
    /\ \A r \in {p, q} :
          Retried(r) =>
              /\ call[p].relogins + call[q].relogins = 1
              /\ call[r].cookies_old # call[r].snap0

LockedCred(p) ==
    IF cookies_str(self) # call[p].cookies THEN cookies_str(self)
    ELSE IF self.cookies_mtime > call[p].cookies_mtime THEN _read_cookies(Cur).ret
    ELSE cookies_str(self)

C3_Step ==
    \A p \in Callers :
        (/\ call[p].pc = "locked" /\ call'[p].pc # "locked"
         /\ call[p].i # 0
         /\ LockedCred(p) = call[p].cookies_old)
        => /\ call'[p].pc = "err" /\ call'[p].e = "relogin"
           /\ call'[p].relogins = call[p].relogins
           /\ lock'[Mode(p)] = NoOne

C3_Bound ==
    \A p \in Callers :
        (~call[p].foreign /\ ~call[p].auth_seen) => call[p].i <= 1 /\ call[p].sends <= 2

\* C3: on an attempt that is not the first, when the credential seen under
\* the lock equals the attempt's snapshot, the failure is propagated (no
\* re-login, the lock released); hence a call whose attempts all fail with a
\* relogin condition, while nothing else changes the cookies, makes at most
\* two transport calls.
C3_NoProgressPropagates == [][C3_Step /\ C3_Bound']_vars

\* a call re-logged in, retried, failed again with a relogin condition under
\* the cookies of its own re-login, and was ended with that failure
C3_Witness ==
    \E p \in Callers :
        /\ call[p].pc = "err" /\ call[p].e = "relogin"
        /\ call[p].i = 1 /\ call[p].relogins = 1
        /\ ~call[p].foreign /\ ~call[p].auth_seen

----------------------------------------------------------------------------
(* Claims on one call of request() *)

\* the step in which the attempt of p in flight ends with an exception
Fails(p) == call[p].pc = "wait" /\ call'[p].pc \in {"send", "mtime", "err"}

\* C4 (as stated): with a policy configured, an attempt that raises
\* AuthenticationError is retried if and only if the cookie string or the
\* credential file differs from the attempt's snapshot, and is propagated
\* otherwise (also without a credential file); no re-login is made.
C4_AuthRetryIffChanged ==
    [][\A p \in Callers :
        (Fails(p) /\ call[p].policy /\ call'[p].e = "auth")
        => LET changed == \/ cookies_str(self) # call[p].cookies_old
                          \/ self.cookies_path /\ fs.content # call[p].cookies_old
           IN /\ changed => call'[p].pc = "send" /\ call'[p].i = call[p].i + 1
              /\ ~changed => call'[p].pc = "err"
              /\ call'[p].relogins = call[p].relogins
              /\ logins' = logins /\ lock' = lock]_vars

\* the predicate returned False or a status code other than 405
Negative(res) == (res.isbool /\ ~res.b) \/ (~res.isbool /\ res # NoRes /\ res.n # 405)

\* C5: an attempt that fails with another error than AuthenticationError for
\* which the predicate returns False or a code other than 405 ends the call
\* with that error: no further transport call, the lock, the client and the
\* credential file untouched, no re-login; without a policy every failure
\* ends the call after its one transport call.
C5_NegativePropagates ==
    [][\A p \in Callers :
        /\ (Fails(p) /\ call[p].policy /\ call'[p].e # "auth" /\ Negative(call'[p].res))
           => /\ call'[p].pc = "err"
              /\ call'[p].sends = call[p].sends /\ (call[p].i = 0 => call'[p].sends = 1)
              /\ call'[p].relogins = call[p].relogins
              /\ UNCHANGED <<self, fs, lock, logins>>
        /\ (Fails(p) /\ ~call[p].policy)
           => /\ call'[p].pc = "err" /\ call'[p].sends = 1
              /\ UNCHANGED <<self, fs, lock, logins>>]_vars

\* a call on a client with a policy was ended by a failure for which the
\* predicate returned a status code other than 405, after one transport call
C5_Witness ==
    \E p \in Callers :
        /\ call[p].pc = "err" /\ call[p].policy
        /\ ~call[p].res.isbool /\ call[p].res.n = 500
        /\ call[p].sends = 1

\* the Cookie headers of the request as the caller passed them
CallerHeaders(hdrs) ==
    [Cookie |-> IF hdrs = "Cookie" THEN CallerCookie ELSE None,
     cookie |-> IF hdrs = "cookie" THEN CallerCookie ELSE None]

\* C6 (as stated): a request whose caller passed a Cookie header is sent, on
\* every attempt and with or without a policy, with exactly that header.
C6_CallerCookieKept ==
    \A p \in Callers :
        (call[p].pc = "wait" /\ call[p].hdrs \in {"Cookie", "cookie"})
        => call[p].kw = CallerHeaders(call[p].hdrs)

\* the host is 115.com or one of its sub-domains
IsServiceHost(host) ==
    Len(host) >= 2 /\ host[Len(host) - 1] = "115" /\ host[Len(host)] = "com"

\* C7 (as stated): a request through the default transport to a host that is
\* not 115.com or a sub-domain, whose caller passed no Cookie header, is sent
\* without a Cookie header.
C7_NoCookieToForeignHost ==
    \A p \in Callers :
        (/\ call[p].pc = "wait"
         /\ ~call[p].custom
         /\ ~IsServiceHost(call[p].url)
         /\ call[p].hdrs \in {"none", "nocookie"})
        => call[p].kw = CallerHeaders("none")

----------------------------------------------------------------------------
(* Claims on the cookies, the cached ids and the credential file *)

\* C8 (as stated): on a client with a credential file, after every cookie
\* assignment, login and re-read of the file the content of the file equals
\* the client's cookie string; an assignment or login that leaves the cookie
\* string unchanged does not write the file.
C8_FileFollowsCookies ==
    [][(self.cookies_path /\ last'.op \in {"assign", "login", "read"})
        => /\ fs'.content = cookies_str(self')
           /\ (last'.op # "read" /\ cookies_str(self') = cookies_str(self)) => fs' = fs]_vars

\* the user id a read of user_id returns in the world W
UserIdRead(W) == get_user_id(W).ret

\* C9 (as stated): after every cookie assignment that was made (a string, a
\* mapping, an iterable or None), a read of user_id returns the id derived
\* from the UID cookie of the jar (0 when there is none), and a cached
\* user_key is dropped exactly when that id differs from the user id before
\* the assignment.
C9_IdsFollowCookies ==
    [][(/\ last'.op = "assign" /\ ~last'.raised
        /\ ~CookieConflict(self.cookies) /\ ~CookieConflict(self'.cookies))
        => /\ UserIdRead(World(self', fs', clock')) = user_id_of(self'.cookies)
           /\ self.user_key # NoKey
                => ((self'.user_key = NoKey)
                        <=> (user_id_of(self'.cookies) # UserIdRead(Cur)))]_vars

\* the jar after the cookie string of the client is assigned to it, in world W
Reassigned(W) == cookies_setter(W, [kind |-> "str", s |-> cookies_str(W.self)]).self.cookies

\* when the operation l made last in world W was the assignment of a cookie
\* string: assigning the cookie string read back leaves the jar as it is
RoundTrip(W, l) ==
    (l.op = "assign" /\ l.kind = "str" /\ ~l.raised) => Reassigned(W) = W.self.cookies

HasCookie(jar, d, n) ==
    \E k \in 1..Len(JarIter(jar)) : JarIter(jar)[k].domain = d /\ JarIter(jar)[k].name = n

\* the step assigns the mapping {n: ""} to a jar that holds a cookie named n
\* of the service's domain: that cookie is removed, the others stay
Removal ==
    \A n \in Names :
        (last'.op = "assign" /\ last'.clear = n /\ HasCookie(self.cookies, ApexDomain, n))
        => self'.cookies = clear_cookie(self.cookies, ApexDomain, n)

\* C10 (as stated): after a cookie string was assigned, assigning the
\* cookie string read back from the client leaves the jar as it is; the
\* assignment of a mapping with an empty value for the name of an existing
\* cookie removes that cookie and leaves the other cookies unchanged.
C10_RoundTripAndRemoval ==
    [][RoundTrip(World(self', fs', clock'), last') /\ Removal]_vars

\* C11 (as stated): the assignment of None, of an empty string or of an
\* empty mapping leaves the cookie jar empty, whatever it held before.
C11_EmptyClearsJar ==
    [][(last'.op = "assign" /\ last'.empty) => self'.cookies = <<>>]_vars

----------------------------------------------------------------------------
(* Claims on the logins *)

\* the poll answered a status that ends the loop
Terminal(e) == ~e.raised /\ e.status \notin {0, 1}

\* C12: in login_with_qrcode every poll but the last answered 0 or 1 or
\* raised (no poll follows a terminal status); after a 2 the device exchange
\* is made, once, when an app was given, and the bare token returned
\* otherwise; after any other terminal status a LoginError is raised and no
\* device exchange is made; until then the call keeps polling.
C12_PollLoop ==
    run.kind = "login_with_qrcode" =>
        LET n == Len(run.seen)
        IN /\ \A k \in 1..(n - 1) : ~Terminal(run.seen[k])
           /\ Issued(run.log, "status") = n
           /\ Issued(run.log, "result") <= 1
           /\ IF n = 0 \/ ~Terminal(run.seen[n])
              THEN run.pc = "poll" /\ Issued(run.log, "result") = 0
              ELSE IF run.seen[n].status = 2
              THEN IF run.app
                   THEN \/ run.pc = "exchange" /\ Issued(run.log, "result") = 0
                        \/ /\ run.pc = "done" /\ run.outcome = "result"
                           /\ run.log[Len(run.log)] = "result"
                   ELSE /\ run.pc = "done" /\ run.outcome = "token"
                        /\ Issued(run.log, "result") = 0
              ELSE /\ run.pc = "done" /\ run.outcome = "LoginError"
                   /\ Issued(run.log, "result") = 0

\* the statuses 0, 1, 2 were polled and the device exchange was made
C12_Witness ==
    /\ run.kind = "login_with_qrcode"
    /\ run.seen = <<Polled(0), Polled(1), Polled(2)>>
    /\ run.outcome = "result"

\* C13: a login() whose probe reported an active session has issued the
\* probe and nothing else, and the cookie jar, the cached user id and the
\* credential file are as they were when it was called; the QR flow has been
\* entered, and the cookies replaced, only when the probe reported none.
C13_LoginNoOp ==
    run.kind = "login" =>
        /\ run.status =>
              /\ run.log = <<"status">>
              /\ run.pc = "done" /\ run.outcome = "self"
              /\ self.cookies = run.before.cookies
              /\ self.user_id = run.before.user_id
              /\ fs = run.before.fs
        /\ run.pc = "probe" =>
              /\ run.log = <<"status">>
              /\ self.cookies = run.before.cookies /\ fs = run.before.fs
        /\ (Issued(run.log, "token") > 0 \/ self.cookies # run.before.cookies)
              => ~run.status /\ run.pc = "done"

\* a login() found an active session and returned
C13_Witness ==
    run.kind = "login" /\ run.status /\ run.pc = "done"

\* the app the claim's order gives: the explicit argument, else the table's
\* app for the code of the UID cookie, else the looked-up device of a code
\* the table does not know, else "qandroid"
ExpectedApp ==
    LET code == login_ssoent(run.before.cookies)
    IN IF run.app # NoApp THEN run.app
       ELSE IF code # NoApp /\ code \in DOMAIN SSOENT_TO_APP THEN SSOENT_TO_APP[code]
       ELSE IF code # NoApp /\ ~run.device.none /\ run.device.icon # NoApp
       THEN run.device.icon
       ELSE "qandroid"

\* C14: when login() has to log in, the app it logs in with is the one the
\* order gives, and the device lookup has been issued only when no app was
\* passed and the code of the UID cookie is not in the table.
C14_AppOrder ==
    run.kind = "login" =>
        /\ run.pc = "qrcode" => run.chosen = ExpectedApp
        /\ Issued(run.log, "devices") <= 1
        /\ Issued(run.log, "devices") = 1 =>
              /\ ~run.status /\ run.app = NoApp
              /\ login_ssoent(run.before.cookies) # NoApp
              /\ login_ssoent(run.before.cookies) \notin DOMAIN SSOENT_TO_APP

\* a login() without an app, on cookies of a code the table does not know,
\* goes on with the device the lookup returned
C14_Witness ==
    /\ run.kind = "login" /\ run.pc = "qrcode"
    /\ run.app = NoApp /\ run.chosen = "ios"
    /\ Issued(run.log, "devices") = 1

----------------------------------------------------------------------------
(* Claims on the upload pipeline *)

Uploading == run.kind \in {"upload_file", "upload_file_init"}

Transfers == {"oss_upload", "oss_multipart_upload", "upload_file_sample"}

\* C15: a run that returned the answer (2, 0) of a negotiation returned it
\* with state true and with a data block of the target U_1_{pid}, the name,
\* the size and the uppercased sha1 it had submitted, and the parent id; and
\* upload_file returned it without a token request and without a transfer.
C15_InstantUpload ==
    (Uploading /\ run.outcome = "returned" /\ run.resp.status = 2 /\ run.resp.statuscode = 0) =>
        /\ run.resp.state
        /\ run.resp.data.target = <<"U_1_", run.pid>>
        /\ run.resp.data.target = run.sent[1].target
        /\ run.resp.data.file_name = run.sent[1].filename
        /\ run.resp.data.file_size = run.sent[1].filesize
        /\ run.resp.data.sha1 = run.sent[1].fileid /\ run.resp.data.sha1.upper
        /\ run.resp.data.cid = run.pid
        /\ Issued(run.log, "upload_token") = 0
        /\ \A k \in 1..Len(run.log) : run.log[k] \notin Transfers

\* upload_file of a buffer returned the answer (2, 0)
C15_Witness ==
    /\ run.kind = "upload_file" /\ run.file = "buffer"
    /\ run.outcome = "returned" /\ run.resp.status = 2 /\ run.resp.statuscode = 0

\* the challenge was answered as the claim says: one read of the span of
\* sign_check, one more negotiation with sign_key and the uppercase digest of
\* the bytes read
Answered ==
    /\ run.reads = <<Span(run.curpos + SignCheck[1], run.curpos + SignCheck[2])>>
    /\ Len(run.sent) = 2
    /\ run.sent[2].sign_key = SignKey
    /\ run.sent[2].sign_val = Upper(Sha1(run.reads[1]))
    /\ run.sent[2] = [run.sent[1] EXCEPT !.sign_key = SignKey,
                                         !.sign_val = run.sent[2].sign_val]

\* the challenge was refused: ValueError, nothing read, nothing sent again
Refused ==
    /\ run.outcome = "ValueError" /\ run.reads = <<>> /\ Len(run.sent) = 1

C17_FailFast ==
    /\ (run.kind = "upload_file_init" /\ run.filesize >= MiB /\ run.reader = "none") =>
          (run.outcome = "ValueError" /\ run.log = <<>> /\ run.sent = <<>>)
    /\ run.kind = "upload_file" =>
          \A k \in 1..Len(run.sent) : run.sent[k].filesize >= MiB => run.reader # "none"

\* upload_file_init was called with 1 MiB and no reader
C17_Witness ==
    /\ run.kind = "upload_file_init" /\ run.filesize >= MiB /\ run.reader = "none"
    /\ run.outcome = "ValueError"

\* C18: upload_file with a resume record hashes nothing, negotiates nothing
\* and goes to the multipart transfer, for every kind of file and whatever
\* upload_directly and partsize are.
C18_ResumeFirst ==
    (run.kind = "upload_file" /\ run.given) =>
        /\ ~run.hashed /\ ~run.copied
        /\ run.resume
        /\ \A k \in 1..Len(run.log) : run.log[k] \in {"upload_token", "oss_multipart_upload"}

\* the negotiation was issued again: once, as the last thing, after a
\* transfer that answered with a truthy state, for a source with a reader
Reissued ==
    /\ Issued(run.log, "upload_file_init") = 1
    /\ Len(run.log) >= 2
    /\ run.log[Len(run.log)] = "upload_file_init"
    /\ run.log[Len(run.log) - 1] \in {"oss_upload", "oss_multipart_upload"}
    /\ run.pc = "done" /\ run.outcome = "returned"
    /\ run.resp.state /\ run.reader # "none"

----------------------------------------------------------------------------
(* Claims on the validation of responses *)

\* the table of the specification: field, code, error kind, errno
Documented ==
    {<<"errno", 99, "LoginError", "EIO">>,
     <<"errno", 911, "AuthenticationError", "EIO">>,
     <<"errno", 20004, "FileExistsError", "EEXIST">>,
     <<"errno", 20009, "FileNotFoundError", "ENOENT">>,
     <<"errno", 50003, "FileNotFoundError", "ENOENT">>,
     <<"errno", 90008, "FileNotFoundError", "ENOENT">>,
     <<"errno", 91002, "NotSupportedError", "ENOTSUP">>,
     <<"errno", 91004, "NotSupportedError", "ENOTSUP">>,
     <<"errno", 91005, "OperationalError", "ENOSPC">>,
     <<"errno", 231011, "FileNotFoundError", "ENOENT">>,
     <<"errno", 300104, "P115OSError", "EFBIG">>,
     <<"errno", 980006, "NotSupportedError", "ENOSYS">>,
     <<"errno", 990005, "BusyOSError", "EBUSY">>,
     <<"errno", 990009, "BusyOSError", "EBUSY">>,
     <<"errno", 990023, "OperationalError", "ENOTSUP">>,
     <<"errno", 40100000, "OperationalError", "EINVAL">>,
     <<"errno", 40101004, "LoginError", "EIO">>,
     <<"errno", 40101017, "AuthenticationError", "EIO">>,
     <<"errno", 40101032, "LoginError", "EIO">>,
     <<"errNo", 990001, "AuthenticationError", "EIO">>,
     <<"errcode", 911, "AuthenticationError", "EIO">>,
     <<"code", 99, "AuthenticationError", "EIO">>,
     <<"msg_code", 50028, "P115OSError", "EFBIG">>,
     <<"msg_code", 70004, "IsADirectoryError", "EISDIR">>,
     <<"msg_code", 70005, "FileNotFoundError", "ENOENT">>}

\* the first of the keys that a body has, in the order of priority; 0 for none
FirstField(codes) ==
    IF \A i \in 1..Len(Fields) : codes[Fields[i]] = NoKey THEN 0
    ELSE CHOOSE i \in 1..Len(Fields) :
            /\ codes[Fields[i]] # NoKey
            /\ \A j \in 1..(i - 1) : codes[Fields[j]] = NoKey

\* the error the table gives for a body with a falsy state: the documented
\* one for the code under its first key, the generic one otherwise
Expected(codes) ==
    IF \E d \in Documented :
          FirstField(codes) # 0 /\ d[1] = Fields[FirstField(codes)] /\ d[2] = codes[d[1]]
    THEN LET d == CHOOSE d \in Documented :
                      d[1] = Fields[FirstField(codes)] /\ d[2] = codes[d[1]]
         IN Raised(d[3], d[4])
    ELSE Raised("P115OSError", "EIO")

\* the result of check_response is in: that of the call for a body at hand,
\* that of the await for a pending one
Validated ==
    /\ run.kind = "check_response"
    /\ run.pc = "done"
    /\ run.body.pending => run.result # Returned("coroutine")

\* C20 for mappings: a falsy state raises what the table says for the code,
\* the generic error with EIO and the body for a code that is not in it or
\* for none; a truthy or absent state returns the body.
C20_Mappings ==
    (Validated /\ run.body.dict) =>
        run.result = IF run.body.state = "falsy" THEN Expected(run.body.codes)
                     ELSE Returned("resp")

\* C20: check_response raises what the table says for a mapping with a
\* falsy state, returns a mapping with a truthy or absent state, and raises
\* the generic error for a body that is no mapping.
C20_Validation ==
    /\ C20_Mappings
    /\ (Validated /\ ~run.body.dict) => run.result = Raised("P115OSError", "EIO")

----------------------------------------------------------------------------
(* Claims on the reading of ranges *)

Reading == run.kind = "read" /\ run.op = "read_bytes"

\* the start and the stop of a read as the claims resolve them against the
\* length
ResolvedStart == IF run.start < 0 THEN Max(0, run.length + run.start) ELSE run.start
ResolvedStop ==
    IF run.stop.none THEN NoStop
    ELSE IF run.stop.v < 0 THEN Stop(run.length + run.stop.v) ELSE run.stop

\* C21: a read_bytes with a negative start or stop asks for the length once,
\* with the range "-1", before anything else, and its data request, if it
\* makes one, is for the start max(0, L + start) and the stop L + stop; for a
\* negative start and no stop that request is made, for "{max(0, L+start)}-";
\* a read_bytes with start and stop not negative never asks for the length.
C21_LengthProbe ==
    Reading =>
        /\ Len(run.reqs) <= 2
        /\ \A k \in 1..Len(run.reqs) :
              (run.reqs[k] = Suffix(1)) = (k = 1 /\ NeedsLength(run.start, run.stop))
        /\ (run.start < 0 \/ (~run.stop.none /\ run.stop.v < 0)) =>
              /\ Len(run.reqs) >= 1
              /\ Len(run.reqs) = 2 =>
                    /\ run.reqs[2].a = ResolvedStart
                    /\ run.reqs[2].unit = IF run.stop.none THEN "from" ELSE "between"
                    /\ ~run.stop.none => run.reqs[2].b = ResolvedStop.v - 1
              /\ (run.start < 0 /\ run.stop.none /\ run.pc \in {"data", "done"}
                  /\ ~(run.outcome = "raised" /\ Len(run.reqs) = 1)) =>
                    run.reqs = <<Suffix(1), From(Max(0, run.length + run.start))>>

\* read_bytes(url, -10) on a file of 12 bytes has asked for "2-"
C21_Witness ==
    /\ Reading /\ run.start = -10 /\ run.stop.none /\ run.length = 12
    /\ run.reqs = <<Suffix(1), From(2)>> /\ run.outcome = "returned"

\* the range of a read is empty or inverted once resolved
EmptyRange == ~run.stop.none /\ ResolvedStart >= ResolvedStop.v

\* C22 as stated: a read_bytes whose resolved range is empty or inverted
\* makes no request at all and returns no bytes.
C22_EmptyNoRequest ==
    (Reading /\ EmptyRange) =>
        /\ run.reqs = <<>>
        /\ run.pc = "done" /\ run.outcome = "returned" /\ run.result = <<>>

\* C22 amended: a read_bytes whose resolved range is empty or inverted makes
\* no data request and returns no bytes; it makes no request at all when
\* start and stop are not negative, and the one request for the length when
\* one of them is.
C22_EmptyNoData ==
    (Reading /\ EmptyRange) =>
        /\ run.reqs = IF NeedsLength(run.start, run.stop) THEN <<Suffix(1)>> ELSE <<>>
        /\ run.pc = "done" => (run.outcome = "raised" \/ run.result = <<>>)
        /\ (run.pc = "done" /\ run.outcome = "raised") => NeedsLength(run.start, run.stop)
        /\ ~NeedsLength(run.start, run.stop) => run.pc = "done"

\* a read_bytes of an inverted range from the end returned after the one
\* request for the length
C22_Witness ==
    /\ Reading /\ run.start = -1 /\ ~run.stop.none /\ run.stop.v = -2
    /\ run.pc = "done" /\ run.outcome = "returned" /\ run.reqs = <<Suffix(1)>>

\* the offset of a read_block, resolved against the length
ResolvedOffset == IF run.start < 0 THEN Max(0, run.length + run.start) ELSE run.start

\* C23: a read_block that returned has returned the bytes from the resolved
\* offset o up to min(o + size, L) for a positive size, up to L for a negative
\* one, and nothing, without a request, for the size 0.
C23_ReadBlock ==
    (run.kind = "read" /\ run.op = "read_block" /\ ResolvedOffset < run.length) =>
        /\ run.size = 0 => (run.reqs = <<>> /\ run.result = <<>> /\ run.outcome = "returned")
        /\ (run.size > 0 /\ run.outcome = "returned") =>
              run.result = Bytes(ResolvedOffset,
                                 Min(ResolvedOffset + run.size, run.length) - 1)
        /\ (run.size < 0 /\ run.outcome = "returned") =>
              run.result = Bytes(ResolvedOffset, run.length - 1)

----------------------------------------------------------------------------
(* Claims on the two modes and on extract_file *)

\* C24: the blocking and the non-blocking execution of one call, given the
\* same responses, have issued the same requests whenever both are at the
\* same point, and end with the same result or the same error.
C24_SameInBothModes ==
    run.kind = "modes" =>
        /\ run.blocking.pc = run.nonblocking.pc
        /\ run.blocking.reqs = run.nonblocking.reqs
        /\ run.blocking.outcome = run.nonblocking.outcome
        /\ run.blocking.state = run.nonblocking.state
        /\ run.blocking.size = run.nonblocking.size

\* the fields an extraction has to carry for the entries of the pages listed
RECURSIVE Named(_)
Named(pages) ==
    IF pages = <<>> THEN <<>>
    ELSE Named(SubSeq(pages, 1, Len(pages) - 1))
         \o [k \in 1..Len(pages[Len(pages)].list) |->
                IF pages[Len(pages)].list[k].file_category = 0
                THEN <<"extract_dir[]", <<pages[Len(pages)].list[k].file_name>>>>
                ELSE <<"extract_file[]", <<pages[Len(pages)].list[k].file_name>>>>]

\* the requests of an extract_file are listings, one for each page
\* received and one more while the last page had a marker
Listings(n) ==
    /\ Len(run.reqs) >= n
    /\ \A k \in 1..n :
          run.reqs[k] = Listing(IF k = 1 THEN NoMarker ELSE run.pages[k - 1].next_marker)
    /\ \A k \in 1..(n - 1) : k <= Len(run.pages) /\ run.pages[k].next_marker # NoMarker

\* C25: an extract_file without paths asks for the listing page by page,
\* each request with the next_marker of the page before, while the pages
\* have one; after the page without one it submits one extraction, its last
\* request, naming every entry of every page, directories as extract_dir[]
\* and files as extract_file[]; after a first page that reported failure it
\* returns that response and requests nothing more.
C25_ListThenExtract ==
    (run.kind = "extract_file" /\ run.reqs[1].api = "extract_list") =>
        /\ run.pc = "list" => (Len(run.reqs) = Len(run.pages) + 1 /\ Listings(Len(run.reqs)))
        /\ (run.pc = "done" /\ Len(run.reqs) = 1) =>
              /\ Listings(1) /\ Len(run.pages) = 1
              /\ ~run.pages[1].state /\ run.outcome = "returned" /\ ~run.state
        /\ (run.pc = "add" \/ (run.pc = "done" /\ Len(run.reqs) > 1)) =>
              /\ Len(run.reqs) = Len(run.pages) + 1
              /\ Listings(Len(run.pages))
              /\ run.pages[1].state
              /\ run.pages[Len(run.pages)].next_marker = NoMarker
              /\ run.reqs[Len(run.reqs)].api = "extract_add_file"
              /\ run.reqs[Len(run.reqs)].data = Named(run.pages)

\* an extract_file has listed two pages and submitted the extraction of the
\* file and the directory they held
C25_Witness ==
    /\ run.kind = "extract_file" /\ run.pc = "done" /\ Len(run.pages) = 2
    /\ run.reqs[3].api = "extract_add_file"
    /\ run.reqs[3].data = <<<<"extract_file[]", <<"a">>>>, <<"extract_dir[]", <<"b">>>>>>

----------------------------------------------------------------------------
(* Claims on the relogin warning, the held lock and the retry after a       *)
(* re-login                                                                 *)

\* C26: the relogin warning is emitted exactly when the dispatcher makes an
\* automatic re-login: a call has emitted as many warnings as it has made
\* re-logins, so none on an attempt that ends by propagating the failure or
\* by retrying with a credential obtained without a re-login.
C26_WarningIffRelogin ==
    \A p \in Callers : call[p].warns = call[p].relogins

\* C27: a blocking caller that holds the re-authentication lock for its
\* re-login never waits for that lock.
C27_HolderNeverWaits ==
    \A p \in Callers :
        ~(/\ ~call[p].async_
          /\ lock[Mode(p)] = p
          /\ call[p].pc = "acquire")

\* the attempt of p that follows its re-login has been sent
AfterRelogin(p) ==
    /\ call[p].relogins >= 1
    /\ call[p].i >= 1
    /\ call[p].pc \in {"wait", "ok"}

\* C28: within one call of request(), while nothing else changes the
\* cookies, at most one automatic re-login is made, and the attempt that
\* follows it is sent with the cookie string of that re-login, not with the
\* snapshot of the first attempt.
C28_OneReloginFreshRetry ==
    \A p \in Callers :
        (call[p].policy /\ ~call[p].foreign) =>
            /\ call[p].relogins <= 1
            /\ AfterRelogin(p) =>
                  /\ call[p].cookies_old # call[p].snap0
                  /\ call[p].cookies_old = cookies_str(self)
                  /\ call[p].headers => call[p].kw.Cookie = cookies_str(self)

\* a call re-logged in once, retried with the cookies of the re-login under
\* the Cookie header, failed again and was ended with that failure
C28_Witness ==
    \E p \in Callers :
        /\ call[p].policy /\ ~call[p].foreign
        /\ call[p].relogins = 1 /\ call[p].sends >= 2
        /\ call[p].headers /\ call[p].kw.Cookie = cookies_str(self)
        /\ call[p].cookies_old # call[p].snap0
        /\ call[p].pc = "err" /\ call[p].e = "relogin"

----------------------------------------------------------------------------
(* Claims on the token of a resumed upload and on the closing of the file   *)

\* upload_file transfers from a resume record and has called the transfer
Resumed == run.kind = "upload_file" /\ run.resume /\ run.pc \in {"transfer", "done"}

\* C29: when upload_file resumes from a record without a token, it requests
\* tokens until one is granted and the multi-part upload is made with the
\* token acquired, never with an absent one; when the record has a token no
\* token is requested.
C29_ResumeToken ==
    Resumed =>
        IF run.token
        THEN run.tokens = 0 /\ Issued(run.log, "upload_token") = 0
        ELSE /\ run.tokens >= 1
             /\ Issued(run.log, "upload_token") = run.tokens
             /\ run.passed = "acquired"

\* the call of upload_file has ended and no thread of it is left running
Completed == run.kind = "upload_file" /\ run.pc = "done" /\ run.bg # "running"

\* C30: when upload_file runs with close_file set, as it always does for a
\* path, the content source is closed on every completion path.
C30_ClosedOnCompletion ==
    (Completed /\ run.close_file) => run.closed

====
